---- MODULE Spec2Model ----
(***************************************************************************)
(* A model of fp61: arithmetic over the Mersenne prime p = 2^61-1 and the  *)
(* bit-packing codecs ByteReader / ByteWriter / WordReader / WordWriter.   *)
(*                                                                         *)
(* A 64-bit word (uint64_t) is a function from bit number 0..63 to {0,1},  *)
(* bit 0 the least significant: the values of the program do not fit the   *)
(* integers of the model checker, and the codecs only use &, |, <<, >> and *)
(* comparisons, all of which are defined bit by bit below.                 *)
(***************************************************************************)
EXTENDS Integers, Sequences, FiniteSets, TLC

(***************************************************************************)
(* uint64_t and its operators                                              *)
(***************************************************************************)
BitIdx == 0..63

U64Zero == [i \in BitIdx |-> 0]

\* (uint64_t)n for a small non-negative n
U64(n) == [i \in BitIdx |-> IF i < 31 THEN (n \div (2^i)) % 2 ELSE 0]

\* a & b
And64(a, b) == [i \in BitIdx |-> a[i] * b[i]]

\* a | b
Or64(a, b) == [i \in BitIdx |-> IF a[i] = 1 \/ b[i] = 1 THEN 1 ELSE 0]

\* a << k, for 0 <= k <= 63 (any other k is undefined in C++: a k < 0 makes
\* the evaluation fail here, so a run of the model checks the shift counts)
Shl64(a, k) == [i \in BitIdx |-> IF i >= k THEN a[i - k] ELSE 0]

\* a >> k, for 0 <= k <= 63
Shr64(a, k) == [i \in BitIdx |-> IF i + k <= 63 THEN a[i + k] ELSE 0]

\* a >= b, unsigned
Geq64(a, b) ==
    LET d == {i \in BitIdx : a[i] # b[i]}
    IN  d = {} \/ \A i \in d : (\E j \in d : j > i) \/ a[i] = 1

(***************************************************************************)
(* Constants (fp61.h)                                                      *)
(***************************************************************************)
\* p = 2^61 - 1
kPrime == [i \in BitIdx |-> IF i < 61 THEN 1 ELSE 0]

\* 0x0ff...fff = 2^60 - 1
kAmbiguityMask == [i \in BitIdx |-> IF i < 60 THEN 1 ELSE 0]

\* fp61.cpp names kAmbiguity without defining it; the specification gives the
\* placeholder as A = p - 1 = 0x1ff...ffe, and the comment of fp61.cpp
\* ("Insert bit 0 for fffe and 1 for ffff") agrees
kAmbiguity == [i \in BitIdx |-> IF 1 <= i /\ i < 61 THEN 1 ELSE 0]

IsU64Ambiguous(u64_word) == And64(u64_word, kAmbiguityMask) = kAmbiguityMask

IsFpAmbiguous(fp_word) == fp_word = kAmbiguityMask

(***************************************************************************)
(* Memory: a byte array is a sequence of bytes 0..255; a pointer into it   *)
(* is the 0-based offset of the byte it points at.                         *)
(***************************************************************************)
\* bit b of byte v
BitOf(v, b) == (v \div (2^b)) % 2

\* (uint8_t)(value >> (8 * i))
ByteOf(value, i) ==
    value[8*i] + 2*value[8*i+1] + 4*value[8*i+2] + 8*value[8*i+3]
    + 16*value[8*i+4] + 32*value[8*i+5] + 64*value[8*i+6] + 128*value[8*i+7]

\* (uint64_t)data[i] << (8 * i)
ByteShl(data, at, i) == Shl64(U64(data[at + i + 1]), 8 * i)

ReadU64_LE(data, at) ==
    [i \in BitIdx |-> BitOf(data[at + (i \div 8) + 1], i % 8)]

ReadU32_LE(data, at) ==
    [i \in BitIdx |-> IF i < 32 THEN BitOf(data[at + (i \div 8) + 1], i % 8) ELSE 0]

\* a read that takes the whole 64-bit word whatever `bytes` says
ReadBytes_LEWhole(data, at, bytes) == ReadU64_LE(data, at)

ReadBytes_LE(data, at, bytes) ==
    CASE bytes = 8 -> ReadU64_LE(data, at)
      [] bytes = 7 -> Or64(ByteShl(data, at, 6), Or64(ByteShl(data, at, 5),
                        Or64(ByteShl(data, at, 4), ReadU32_LE(data, at))))
      [] bytes = 6 -> Or64(ByteShl(data, at, 5),
                        Or64(ByteShl(data, at, 4), ReadU32_LE(data, at)))
      [] bytes = 5 -> Or64(ByteShl(data, at, 4), ReadU32_LE(data, at))
      [] bytes = 4 -> ReadU32_LE(data, at)
      [] bytes = 3 -> Or64(ByteShl(data, at, 2),
                        Or64(ByteShl(data, at, 1), U64(data[at + 1])))
      [] bytes = 2 -> Or64(ByteShl(data, at, 1), U64(data[at + 1]))
      [] bytes = 1 -> U64(data[at + 1])
      [] OTHER -> U64Zero

(***************************************************************************)
(* ByteReader (fp61.h, fp61.cpp).  A cursor is the record of the struct's  *)
(* fields: Data (offset into the buffer), Bytes, Workspace, Available.     *)
(***************************************************************************)
MaxWords(bytes) ==
    LET bits == bytes * 8
    IN  (bits + (bits \div 61) + 60) \div 61

BeginRead(bytes) ==
    [Data |-> 0, Bytes |-> bytes, Workspace |-> U64Zero, Available |-> 0]

\* mutant of ReaderAmbiguous: == in place of >=
ReaderAmbiguousEq(r) == r = kAmbiguity

\* if (r >= kAmbiguity)
ReaderAmbiguous(r) == Geq64(r, kAmbiguity)

\* mutant of InsertBit: the bit inserted is the chunk's top bit, r >> 60
InsertBitHigh(workspace, r) == Or64(Shl64(workspace, 1), Shr64(r, 60))

\* workspace = (workspace << 1) | (r & 1);
InsertBit(workspace, r) == Or64(Shl64(workspace, 1), And64(r, U64(1)))

\* a reader that takes no final load of fewer than 8 bytes
ReaderEmptyNoTail(bytes, available) == bytes < 8

\* a reader that reports Empty only while bits are owed, never at the exact end
ReaderEmptyStrict(bytes, available) == bytes = 0 /\ available < 0

\* mutant of ReaderEmpty: the bits held in the accumulator are forgotten
ReaderEmptyBytesOnly(bytes, available) == bytes = 0

\* if (bytes == 0 && available <= 0) return ReadResult::Empty;
ReaderEmpty(bytes, available) == bytes = 0 /\ available <= 0

\* mutant of TailAvailable: a whole 64-bit word is taken off, not a 61-bit one
TailAvailable64(available, bytes) == available + bytes * 8 - 64

\* nextAvailable = available + bytes * 8 - 61;
TailAvailable(available, bytes) == available + bytes * 8 - 61

\* the end of ReadNext: the ambiguity escape and the stores to the cursor
ReadNextEscape(Data, Bytes, r, workspace, nextAvailable) ==
    IF ReaderAmbiguous(r)
    THEN [result |-> "Success", fpOut |-> kAmbiguity,
          rd |-> [Data |-> Data, Bytes |-> Bytes,
                  Workspace |-> InsertBit(workspace, r),
                  Available |-> nextAvailable + 1]]
    ELSE [result |-> "Success", fpOut |-> r,
          rd |-> [Data |-> Data, Bytes |-> Bytes,
                  Workspace |-> workspace, Available |-> nextAvailable]]

\* mutant of ReadNextLoad: the accumulator keeps the whole word that was read
ReadNextLoadKeep(Data, Bytes, word, workspace, available, nextAvailable) ==
    ReadNextEscape(Data, Bytes,
                   And64(Or64(workspace, Shl64(word, available)), kPrime),
                   word,
                   nextAvailable)

\* the branch of ReadNext that loads `word` from the buffer
ReadNextLoad(Data, Bytes, word, workspace, available, nextAvailable) ==
    ReadNextEscape(Data, Bytes,
                   And64(Or64(workspace, Shl64(word, available)), kPrime),
                   Shr64(word, 61 - available),
                   nextAvailable)

\* mutant of ReadNextEmpty: an Empty result clears the caller's variable
ReadNextEmptyClear(c, fpOld) == [result |-> "Empty", fpOut |-> U64Zero, rd |-> c]

\* return ReadResult::Empty; before any store to the cursor or to fpOut
ReadNextEmpty(c, fpOld) == [result |-> "Empty", fpOut |-> fpOld, rd |-> c]

\* ReadNext without the line `Data += 8;`
ReadNextNoAdvance(c, data, fpOld) ==
    LET workspace == c.Workspace
        available == c.Available
        bytes == c.Bytes
    IN  IF available >= 61
        THEN ReadNextEscape(c.Data, c.Bytes, And64(workspace, kPrime),
                            Shr64(workspace, 61), available - 61)
        ELSE IF bytes >= 8
        THEN ReadNextLoad(c.Data, bytes - 8, ReadU64_LE(data, c.Data),
                          workspace, available, available + 3)
        ELSE IF ReaderEmpty(bytes, available)
        THEN ReadNextEmpty(c, fpOld)
        ELSE ReadNextLoad(c.Data, 0, ReadBytes_LE(data, c.Data, bytes),
                          workspace, available, TailAvailable(available, bytes))

\* ReadResult ByteReader::ReadNext(uint64_t& fpOut), declared as Read in fp61.h.
\* fpOld is the caller's variable, which an Empty result leaves as it was.
ReadNext(c, data, fpOld) ==
    LET workspace == c.Workspace
        available == c.Available
        bytes == c.Bytes
    IN  IF available >= 61
        THEN ReadNextEscape(c.Data, c.Bytes, And64(workspace, kPrime),
                            Shr64(workspace, 61), available - 61)
        ELSE IF bytes >= 8
        THEN ReadNextLoad(c.Data + 8, bytes - 8, ReadU64_LE(data, c.Data),
                          workspace, available, available + 3)
        ELSE IF ReaderEmpty(bytes, available)
        THEN ReadNextEmpty(c, fpOld)
        ELSE ReadNextLoad(c.Data, 0, ReadBytes_LE(data, c.Data, bytes),
                          workspace, available, TailAvailable(available, bytes))

(***************************************************************************)
(* WordReader (fp61.h, fp61.cpp).  Its Available is declared unsigned and  *)
(* read back into an int at the start of Read; the cursor holds that int   *)
(* (a negative nextAvailable is stored as its value modulo 2^32 and        *)
(* converts back to itself).                                               *)
(***************************************************************************)
\* return (bytes * 8) / 61, in unsigned (32-bit) arithmetic: bytes * 8 wraps
\* to 8 * m with m = bytes % 2^29, and the quotient of 8 * m by 61 is taken
\* from m = 61 * q + r as 8 * q + (8 * r) / 61, which is the same number and
\* keeps every intermediate value within the integers of the model checker
WordCount(bytes) ==
    LET m == bytes % (2^29)
    IN  8 * (m \div 61) + (8 * (m % 61)) \div 61

\* r = workspace | (word << available);
WordReadLoaded(workspace, word, available) == Or64(workspace, Shl64(word, available))

\* uint64_t WordReader::Read()
WordReader_Read(c, data) ==
    LET workspace == c.Workspace
        available == c.Available
        bytes == c.Bytes
    IN  IF available >= 61
        THEN [value |-> And64(workspace, kPrime),
              rd |-> [c EXCEPT !.Workspace = Shr64(workspace, 61),
                               !.Available = available - 61]]
        ELSE IF bytes >= 8
        THEN LET word == ReadU64_LE(data, c.Data)
             IN  [value |-> WordReadLoaded(workspace, word, available),
                  rd |-> [Data |-> c.Data + 8, Bytes |-> bytes - 8,
                          Workspace |-> Shr64(word, 61 - available),
                          Available |-> available + 3]]
        ELSE IF bytes = 0 /\ available <= 0
        THEN [value |-> U64Zero, rd |-> c]
        ELSE LET word == ReadBytes_LE(data, c.Data, bytes)
             IN  [value |-> WordReadLoaded(workspace, word, available),
                  rd |-> [Data |-> c.Data, Bytes |-> 0,
                          Workspace |-> Shr64(word, 61 - available),
                          Available |-> available + bytes * 8 - 61]]

(***************************************************************************)
(* Memory writing.  Output memory is the sequence of the bytes stored so   *)
(* far; a byte below a stored one that no store has reached yet holds -1,  *)
(* which is no byte value.                                                 *)
(***************************************************************************)
MaxOf(a, b) == IF a >= b THEN a ELSE b

\* the bytes data[at + i], i \in idx, set to byte i of value
Store(data, at, idx, value) ==
    LET top == IF idx = {} THEN 0 ELSE at + 1 + CHOOSE i \in idx : \A j \in idx : j <= i
    IN  [k \in 1..MaxOf(Len(data), top) |->
            IF (k - 1 - at) \in idx THEN ByteOf(value, k - 1 - at)
            ELSE IF k <= Len(data) THEN data[k] ELSE -1]

WriteU32_LE(data, at, value) == Store(data, at, 0..3, value)

WriteU64_LE(data, at, value) == Store(data, at, 0..7, value)

\* the switch of WriteBytes_LE with its fall-throughs: cases 7, 6 and 5 store
\* the high bytes and end in WriteU32_LE, cases 3 and 2 fall through to 1
WriteBytes_LE(data, at, bytes, value) ==
    CASE bytes = 8 -> WriteU64_LE(data, at, value)
      [] bytes = 7 -> WriteU32_LE(Store(data, at, {6, 5, 4}, value), at, value)
      [] bytes = 6 -> WriteU32_LE(Store(data, at, {5, 4}, value), at, value)
      [] bytes = 5 -> WriteU32_LE(Store(data, at, {4}, value), at, value)
      [] bytes = 4 -> WriteU32_LE(data, at, value)
      [] bytes = 3 -> Store(data, at, {2, 1, 0}, value)
      [] bytes = 2 -> Store(data, at, {1, 0}, value)
      [] bytes = 1 -> Store(data, at, {0}, value)
      [] OTHER -> data

(***************************************************************************)
(* WordWriter and ByteWriter (fp61.h).  A writer is the record of the      *)
(* fields DataWritePtr (offset from Data), Workspace, Available and, for   *)
(* the ByteWriter, Packed; `data` is the memory written to.                *)
(***************************************************************************)
\* BytesNeeded without the rounding up: bits / 8
BytesNeededDown(words) ==
    LET a == words \div 8
        whole == (61 * (a % 2^23) + ((61 * (a \div 2^23)) % 64) * 2^23) % 2^29
    IN  (whole + (61 * (words % 8)) \div 8) % 2^29

\* const unsigned bits = words * 61; return (bits + 7) / 8; in unsigned
\* (32-bit) arithmetic.  (61 * words + 7) mod 2^32, divided by 8, is
\* floor((61 * words + 7) / 8) mod 2^29, and with words = 8 * a + b the floor
\* is 61 * a + (61 * b + 7) / 8; 61 * a mod 2^29 is taken from the low 23 bits
\* of a and the bits above them, which keeps every intermediate value within
\* the integers of the model checker.
BytesNeeded(words) ==
    LET a == words \div 8
        whole == (61 * (a % 2^23) + ((61 * (a \div 2^23)) % 64) * 2^23) % 2^29
    IN  (whole + (61 * (words % 8) + 7) \div 8) % 2^29

MaxBytesNeeded(words) == BytesNeeded(words)

BeginWrite ==
    [DataWritePtr |-> 0, Workspace |-> U64Zero, Available |-> 0, Packed |-> FALSE]

\* the body shared by WordWriter::Write (word_bits = 61) and ByteWriter::Write
WriteBits(w, data, word, word_bits) ==
    LET workspace == Or64(w.Workspace, Shl64(word, w.Available))
        available == w.Available + word_bits
    IN  IF available >= 64
        THEN [wr |-> [w EXCEPT !.DataWritePtr = w.DataWritePtr + 8,
                               !.Workspace = Shr64(word, word_bits - (available - 64)),
                               !.Available = available - 64],
              data |-> WriteU64_LE(data, w.DataWritePtr, workspace)]
        ELSE [wr |-> [w EXCEPT !.Workspace = workspace, !.Available = available],
              data |-> data]

\* mutant of WordWriter_Write: 60 bits packed per call
WordWriter_Write60(w, data, word) == WriteBits(w, data, word, 60)

WordWriter_Write(w, data, word) == WriteBits(w, data, word, 61)

\* mutant of ByteWordBits: no value is written short
ByteWordBitsPlain(word) == 61

\* const unsigned word_bits = (word == kAmbiguityMask) ? 60 : 61;
ByteWordBits(word) == IF word = kAmbiguityMask THEN 60 ELSE 61

ByteWriter_Write(w, data, word) == WriteBits(w, data, word, ByteWordBits(word))

\* mutant of FinalBytes: rounded down
FinalBytesDown(w) == w.Available \div 8

\* finalBytes = (Available + 7) / 8
FinalBytes(w) == (w.Available + 7) \div 8

\* WordWriter::Flush, which ByteWriter::Flush calls
Flush(w, data) ==
    [data |-> WriteBytes_LE(data, w.DataWritePtr, FinalBytes(w), w.Workspace),
     writtenBytes |-> w.DataWritePtr + FinalBytes(w)]

(***************************************************************************)
(* uint64_t arithmetic (fp61.h).  +, - and * are carried out on the 8      *)
(* bytes of a word, with carries, since a word does not fit an integer of  *)
(* the model checker; all three wrap modulo 2^64 as in C++, and AddC and   *)
(* SubB also tell whether they wrapped.                                    *)
(***************************************************************************)
Bytes64(a) == [k \in 1..8 |-> ByteOf(a, k - 1)]

\* the word whose byte i is l[i + 1] (each taken modulo 256)
FromBytes(l) == [i \in BitIdx |-> BitOf(l[(i \div 8) + 1] % 256, i % 8)]

\* bytes k..8 of la + lb + c, followed by the carry out of byte 8
RECURSIVE AddFrom(_, _, _, _)
AddFrom(la, lb, k, c) ==
    IF k > 8 THEN <<c>>
    ELSE LET s == la[k] + lb[k] + c
         IN  <<s % 256>> \o AddFrom(la, lb, k + 1, s \div 256)

\* a + b: the 64-bit sum and the carry out of bit 63
AddC(a, b) ==
    LET l == AddFrom(Bytes64(a), Bytes64(b), 1, 0)
    IN  [sum |-> FromBytes(l), carry |-> l[9]]

Add64(a, b) == AddC(a, b).sum

\* bytes k..8 of la - lb - c, followed by the borrow out of byte 8
RECURSIVE SubFrom(_, _, _, _)
SubFrom(la, lb, k, c) ==
    IF k > 8 THEN <<c>>
    ELSE LET d == la[k] - lb[k] - c
         IN  <<(d + 256) % 256>> \o SubFrom(la, lb, k + 1, IF d < 0 THEN 1 ELSE 0)

\* a - b: the 64-bit difference and the borrow out of bit 63
SubB(a, b) ==
    LET l == SubFrom(Bytes64(a), Bytes64(b), 1, 0)
    IN  [diff |-> FromBytes(l), borrow |-> l[9]]

Sub64(a, b) == SubB(a, b).diff

\* column k (0..15) of the schoolbook product of two 8-byte numbers: the sum
\* of lx[i] * ly[k - i] from byte i on
RECURSIVE MulColumn(_, _, _, _)
MulColumn(lx, ly, k, i) ==
    IF i > 7 \/ i > k THEN 0
    ELSE (IF k - i <= 7 THEN lx[i + 1] * ly[k - i + 1] ELSE 0)
         + MulColumn(lx, ly, k, i + 1)

\* bytes k..15 of the product, c the carry into column k
RECURSIVE MulFrom(_, _, _, _)
MulFrom(lx, ly, k, c) ==
    IF k > 15 THEN <<>>
    ELSE LET tk == MulColumn(lx, ly, k, 0) + c
         IN  <<tk % 256>> \o MulFrom(lx, ly, k + 1, tk \div 256)

\* mutant of Mul128: the high word of the product taken one byte too low
Mul128Low(x, y) ==
    LET l == MulFrom(Bytes64(x), Bytes64(y), 0, 0)
    IN  [p_lo |-> FromBytes(SubSeq(l, 1, 8)), p_hi |-> FromBytes(SubSeq(l, 8, 15))]

\* CAT_MUL128(p_hi, p_lo, x, y): the 128-bit product x * y
Mul128(x, y) ==
    LET l == MulFrom(Bytes64(x), Bytes64(y), 0, 0)
    IN  [p_lo |-> FromBytes(SubSeq(l, 1, 8)), p_hi |-> FromBytes(SubSeq(l, 9, 16))]

\* Mask where bit #63 is clear and all other bits are set
kMask63 == [i \in BitIdx |-> IF i < 63 THEN 1 ELSE 0]

\* mutant of PartialReduceSum: the high part taken from bit 62 up
PartialReduceSum62(x) == AddC(And64(x, kPrime), Shr64(x, 62))

\* (x & kPrime) + (x >> 61), with the carry of the addition
PartialReduceSum(x) == AddC(And64(x, kPrime), Shr64(x, 61))

\* mutant of PartialReduce: x masked down to its low 62 bits
PartialReduceMask(x) == And64(x, [i \in BitIdx |-> IF i < 62 THEN 1 ELSE 0])

PartialReduce(x) == PartialReduceSum(x).sum

\* mutant of Finalize: without the +1
FinalizeNoInc(x) == And64(Add64(x, Shr64(x, 61)), kPrime)

\* (x + ((x+1) >> 61)) & kPrime
Finalize(x) == And64(Add64(x, Shr64(Add64(x, U64(1)), 61)), kPrime)

\* mutant of Add4Steps: the sum returned without PartialReduce
Add4StepsNoReduce(x, y, z, w) ==
    LET s1 == AddC(x, y)
        s2 == AddC(s1.sum, z)
        s3 == AddC(s2.sum, w)
    IN  [ret |-> s3.sum,
         wrapped |-> s1.carry + s2.carry + s3.carry > 0]

\* x + y + z + w and the PartialReduce of it; wrapped tells whether one of
\* the three 64-bit additions carried out of bit 63
Add4Steps(x, y, z, w) ==
    LET s1 == AddC(x, y)
        s2 == AddC(s1.sum, z)
        s3 == AddC(s2.sum, w)
    IN  [ret |-> PartialReduce(s3.sum),
         wrapped |-> s1.carry + s2.carry + s3.carry > 0]

Add4(x, y, z, w) == Add4Steps(x, y, z, w).ret

\* mutant of Negate: the modulus taken as 2^61
NegatePow(x) == Sub64(Add64(kPrime, U64(1)), x)

\* kPrime - x
Negate(x) == Sub64(kPrime, x)

\* mutant of MultiplySteps: the last reduction step, which the code calls
\* not strictly necessary, is left out
MultiplyStepsNoReduce(x, y) ==
    LET m == Mul128(x, y)
        r1 == AddC(And64(m.p_lo, kPrime), Shr64(m.p_lo, 61))
        r2 == AddC(r1.sum, And64(Shl64(m.p_hi, 3), kMask63))
    IN  [ret |-> r2.sum, wrapped |-> r1.carry + r2.carry > 0]

\* mutant of MultiplySteps: the high word shifted by 2 instead of 3
MultiplyStepsShift2(x, y) ==
    LET m == Mul128(x, y)
        r1 == AddC(And64(m.p_lo, kPrime), Shr64(m.p_lo, 61))
        r2 == AddC(r1.sum, And64(Shl64(m.p_hi, 2), kMask63))
        r3 == PartialReduceSum(r2.sum)
    IN  [ret |-> r3.sum,
         wrapped |-> r1.carry + r2.carry + r3.carry > 0]

\* the statements of Multiply in order; wrapped tells whether one of its
\* 64-bit additions (r = ..., r += ..., PartialReduce(r)) carried out
MultiplySteps(x, y) ==
    LET m == Mul128(x, y)
        r1 == AddC(And64(m.p_lo, kPrime), Shr64(m.p_lo, 61))
        r2 == AddC(r1.sum, And64(Shl64(m.p_hi, 3), kMask63))
        r3 == PartialReduceSum(r2.sum)
    IN  [ret |-> r3.sum,
         wrapped |-> r1.carry + r2.carry + r3.carry > 0]

Multiply(x, y) == MultiplySteps(x, y).ret

(***************************************************************************)
(* State.  The byte pipeline is the loop of TestByteWriter (tests.cpp):    *)
(* read a word from `buf`, write it to `mem`, and flush at Empty; `t`      *)
(* holds the reference of test_byte_reader for the same reads.  The word   *)
(* pipeline is the loop of TestWordSerialization: write `wordData`, flush, *)
(* and read the words back from the bytes written.                         *)
(***************************************************************************)
VARIABLES
    buf,          \* the bytes the reader is given
    rd,           \* the reader's cursor (ByteReader or WordReader)
    fpOut,        \* the caller's variable the last Read stored into
    result,       \* the last ReadResult, "None" before the first Read
    wr,           \* the writer (WordWriter, or ByteWriter with its Writer)
    mem,          \* the bytes the writer has stored
    writtenBytes, \* what Flush returned
    pc,           \* where the driving loop is
    t,            \* test_byte_reader's reference: bits, packed, packedBit, ...
    nEscaped,     \* number of Success results that were the placeholder
    wordData,     \* the words the word pipeline writes
    j,            \* the word pipeline's loop index
    readBack,     \* the words WordReader::Read returned, in order
    call,         \* the arithmetic function called and its arguments
    ret,          \* what the call returned
    prng,         \* the fp61::Random instances: State[0..3] and the test's record
    local         \* the local variables of an Inverse call in progress

vars == <<buf, rd, fpOut, result, wr, mem, writtenBytes, pc, t, nEscaped,
          wordData, j, readBack, call, ret, prng, local>>

\* no arithmetic call is in progress (the codec pipelines)
NoCall == [fn |-> "None"]

(***************************************************************************)
(* Input buffers of the byte pipeline: every length up to MaxLen, each     *)
(* byte 0xFF except at most MaxHoles bytes, which take one of HoleVals     *)
(* (so that chunks of all ones, of p-1 and of 2^60-1 occur, alone and one  *)
(* after the other), the first MaxLen bytes of simpledata of               *)
(* TestByteReader, and one long buffer of WorstLen bytes 0xFF, the input   *)
(* the header names as the worst case of MaxWords.                         *)
(***************************************************************************)
MaxLen == 17

WorstLen == 1418

MaxHoles == 1

HoleVals == {0, 239, 254}

AllOnes(n) == [i \in 1..n |-> 255]

Holed(n) ==
    {[i \in 1..n |-> IF i \in DOMAIN h THEN h[i] ELSE 255] :
        h \in UNION {[S -> HoleVals] :
                       S \in {S \in SUBSET (1..n) : Cardinality(S) <= MaxHoles}}}

\* uint8_t simpledata[] = {0, 1, ..., 15, 0}
SimpleData(n) == [i \in 1..n |-> IF i <= 16 THEN i - 1 ELSE 0]

Buffers ==
    UNION {Holed(n) \cup {SimpleData(n)} : n \in 0..MaxLen} \cup {AllOnes(WorstLen)}

(***************************************************************************)
(* test_byte_reader (tests.cpp): the value the test expects of the next    *)
(* Success, computed from the buffer at bit offset `bits`.                 *)
(***************************************************************************)
TestBegin ==
    [bits |-> 0, packed |-> FALSE, packedBit |-> 0, expandedBits |-> 0,
     actualReads |-> 0, x |-> U64Zero]

TestExpect(s, data, bytes) ==
    LET readStart == s.bits \div 8
        left == bytes - readStart
        readBytes == IF left < 0 THEN 0 ELSE IF left > 8 THEN 8 ELSE left
        x0 == Shr64(ReadBytes_LE(data, readStart, readBytes), s.bits % 8)
        readBits == readBytes * 8 - (s.bits % 8)
        x1 == IF readBytes >= 8 /\ readBits > 0 /\ readBits < 61
                 /\ readStart + readBytes < bytes
              THEN Or64(x0, Shl64(U64(data[readStart + readBytes + 1]), readBits))
              ELSE x0
        x2 == IF s.packed THEN Or64(Shl64(x1, 1), U64(s.packedBit)) ELSE x1
        x3 == And64(x2, kPrime)
        amb == IsU64Ambiguous(x3)
    IN  [bits |-> s.bits + (IF s.packed THEN 60 ELSE 61),
         packed |-> amb,
         packedBit |-> IF amb THEN (IF x3 = kPrime THEN 1 ELSE 0) ELSE s.packedBit,
         expandedBits |-> s.expandedBits + (IF s.packed THEN 1 ELSE 0),
         actualReads |-> s.actualReads + 1,
         x |-> IF amb THEN kAmbiguityMask ELSE x3]

(***************************************************************************)
(* The byte pipeline                                                       *)
(***************************************************************************)
InitByteWith(b) ==
    /\ buf = b
    /\ rd = BeginRead(Len(b))
    /\ fpOut = U64Zero
    /\ result = "None"
    /\ wr = BeginWrite
    /\ mem = <<>>
    /\ writtenBytes = 0
    /\ pc = "read"
    /\ t = TestBegin
    /\ nEscaped = 0
    /\ wordData = <<>>
    /\ j = 0
    /\ readBack = <<>>
    /\ call = NoCall
    /\ ret = NoCall
    /\ prng = <<>>
    /\ local = NoCall

InitByte == \E b \in Buffers : InitByteWith(b)

\* reader.Read(word)
ByteRead ==
    /\ pc = "read"
    /\ LET r == ReadNext(rd, buf, fpOut)
       IN  /\ rd' = r.rd
           /\ fpOut' = r.fpOut
           /\ result' = r.result
           /\ IF r.result = "Success"
              THEN /\ pc' = "write"
                   /\ t' = TestExpect(t, buf, Len(buf))
                   /\ nEscaped' = nEscaped + (IF r.fpOut = kAmbiguity THEN 1 ELSE 0)
              ELSE /\ pc' = "flush"
                   /\ UNCHANGED <<t, nEscaped>>
    /\ UNCHANGED <<buf, wr, mem, writtenBytes, wordData, j, readBack, call, ret, prng, local>>

\* writer.Write(word)
ByteWrite ==
    /\ pc = "write"
    /\ LET w == ByteWriter_Write(wr, mem, fpOut)
       IN  /\ wr' = w.wr
           /\ mem' = w.data
    /\ pc' = "read"
    /\ UNCHANGED <<buf, rd, fpOut, result, writtenBytes, t, nEscaped, wordData, j, readBack, call, ret, prng, local>>

\* writer.Flush()
ByteFlush ==
    /\ pc = "flush"
    /\ LET f == Flush(wr, mem)
       IN  /\ mem' = f.data
           /\ writtenBytes' = f.writtenBytes
    /\ pc' = "done"
    /\ UNCHANGED <<buf, rd, fpOut, result, wr, t, nEscaped, wordData, j, readBack, call, ret, prng, local>>

NextByte == ByteRead \/ ByteWrite \/ ByteFlush

SpecByte == InitByte /\ [][NextByte]_vars

(***************************************************************************)
(* The word pipeline.  The words written are below 2^61 (the test writes   *)
(* prng.Next() & MASK61): every sequence of up to MaxWordLen words of      *)
(* WordVals, and runs of up to MaxRun words that cycle through WordVals    *)
(* (long enough for a Write that does not fill a 64-bit word).             *)
(***************************************************************************)
MaxWordLen == 3

MaxRun == 23

\* 2^60
Bit60 == [i \in BitIdx |-> IF i = 60 THEN 1 ELSE 0]

\* 0x0aaa...aab: bits 0, 1, 3, 5, ..., 59
Mixed61 == [i \in BitIdx |-> IF i < 61 /\ (i = 0 \/ i % 2 = 1) THEN 1 ELSE 0]

WordValSeq == <<kPrime, U64(1), Bit60, Mixed61, U64Zero>>

WordVals == {WordValSeq[i] : i \in 1..Len(WordValSeq)}

RunWords(n, s) == [i \in 1..n |-> WordValSeq[((i + s) % Len(WordValSeq)) + 1]]

WordSeqs ==
    UNION {[1..n -> WordVals] : n \in 0..MaxWordLen}
    \cup {RunWords(n, s) : n \in (MaxWordLen + 1)..MaxRun, s \in 0..(Len(WordValSeq) - 1)}

InitWord ==
    /\ wordData \in WordSeqs
    /\ j = 0
    /\ readBack = <<>>
    /\ buf = <<>>
    /\ rd = BeginRead(0)
    /\ fpOut = U64Zero
    /\ result = "None"
    /\ wr = BeginWrite
    /\ mem = <<>>
    /\ writtenBytes = 0
    /\ pc = "wwrite"
    /\ t = TestBegin
    /\ nEscaped = 0
    /\ call = NoCall
    /\ ret = NoCall
    /\ prng = <<>>
    /\ local = NoCall

\* writer.Write(w)
WordWrite ==
    /\ pc = "wwrite"
    /\ j < Len(wordData)
    /\ LET w == WordWriter_Write(wr, mem, wordData[j + 1])
       IN  /\ wr' = w.wr
           /\ mem' = w.data
    /\ j' = j + 1
    /\ UNCHANGED <<buf, rd, fpOut, result, writtenBytes, pc, t, nEscaped, wordData, readBack, call, ret, prng, local>>

\* writer.Flush(); the reader then reads data[0 .. bytesNeeded), the vector
\* the test sized with data.resize(bytesNeeded)
WordFlush ==
    /\ pc = "wwrite"
    /\ j = Len(wordData)
    /\ LET f == Flush(wr, mem)
           bytesNeeded == BytesNeeded(Len(wordData))
       IN  /\ mem' = f.data
           /\ writtenBytes' = f.writtenBytes
           /\ buf' = [i \in 1..bytesNeeded |-> IF i <= Len(f.data) THEN f.data[i] ELSE 0]
           /\ rd' = BeginRead(bytesNeeded)
    /\ j' = 0
    /\ pc' = "wread"
    /\ UNCHANGED <<fpOut, result, wr, t, nEscaped, wordData, readBack, call, ret, prng, local>>

\* uint64_t u = reader.Read()
WordRead ==
    /\ pc = "wread"
    /\ j < Len(wordData)
    /\ LET r == WordReader_Read(rd, buf)
       IN  /\ rd' = r.rd
           /\ readBack' = Append(readBack, r.value)
    /\ j' = j + 1
    /\ UNCHANGED <<buf, fpOut, result, wr, mem, writtenBytes, pc, t, nEscaped, wordData, call, ret, prng, local>>

NextWord == WordWrite \/ WordFlush \/ WordRead

SpecWord == InitWord /\ [][NextWord]_vars

(***************************************************************************)
(* The four codecs together: a behaviour is a run of the byte pipeline     *)
(* (ByteReader, ByteWriter) or of the word pipeline (WordWriter,           *)
(* WordReader).                                                            *)
(***************************************************************************)
InitCodec == InitByte \/ InitWord

NextCodec == NextByte \/ NextWord

SpecCodec == InitCodec /\ [][NextCodec]_vars

(***************************************************************************)
(* A writer and the buffer computed for it: the caller plans to write      *)
(* `words` values, sizes the buffer with BytesNeeded (MaxBytesNeeded for a *)
(* ByteWriter), writes the values and calls Flush.  The values cycle       *)
(* through SizedValSeq from the position `first`.  Plans run from 0 to     *)
(* MaxPlanned words, and there are the two plans around the largest word   *)
(* count whose bit count fits 32 bits; of a plan the model runs the first  *)
(* MaxPlanned Write calls, and the Flush if the plan is no longer.         *)
(***************************************************************************)
MaxPlanned == 12

\* floor((2^32 - 1) / 61), from 2^32 - 1 = 2 * (2^31 - 1) + 1
LargestFit == 2 * (2147483647 \div 61) + (2 * (2147483647 % 61) + 1) \div 61

PlannedCounts == (0..MaxPlanned) \cup {LargestFit, LargestFit + 1}

SizedValSeq == WordValSeq \o <<kAmbiguityMask>>

SizedCalls ==
    {[fn |-> f, words |-> n, first |-> o] :
        f \in {"WordWriter", "ByteWriter"}, n \in PlannedCounts,
        o \in 1..Len(SizedValSeq)}

InitSized ==
    /\ call \in SizedCalls
    /\ ret = NoCall
    /\ pc = "size"
    /\ wr = BeginWrite
    /\ mem = <<>>
    /\ writtenBytes = 0
    /\ j = 0
    /\ buf = <<>>
    /\ rd = BeginRead(0)
    /\ fpOut = U64Zero
    /\ result = "None"
    /\ t = TestBegin
    /\ nEscaped = 0
    /\ wordData = <<>>
    /\ readBack = <<>>
    /\ prng = <<>>
    /\ local = NoCall

\* data.resize(BytesNeeded(words)); writer.BeginWrite(&data[0]); `count` is
\* what WordCount makes of the size
SizeBuffer ==
    /\ pc = "size"
    /\ LET size == IF call.fn = "WordWriter" THEN BytesNeeded(call.words)
                                             ELSE MaxBytesNeeded(call.words)
       IN  ret' = [size |-> size, count |-> WordCount(size)]
    /\ pc' = "swrite"
    /\ UNCHANGED <<buf, rd, fpOut, result, wr, mem, writtenBytes, t, nEscaped, wordData, j, readBack, call, prng, local>>

\* writer.Write(value)
SizedWrite ==
    /\ pc = "swrite"
    /\ j < call.words
    /\ j < MaxPlanned
    /\ LET value == SizedValSeq[((call.first + j - 1) % Len(SizedValSeq)) + 1]
           w == IF call.fn = "WordWriter" THEN WordWriter_Write(wr, mem, value)
                                          ELSE ByteWriter_Write(wr, mem, value)
       IN  /\ wr' = w.wr
           /\ mem' = w.data
    /\ j' = j + 1
    /\ UNCHANGED <<buf, rd, fpOut, result, writtenBytes, pc, t, nEscaped, wordData, readBack, call, ret, prng, local>>

\* writer.Flush()
SizedFlush ==
    /\ pc = "swrite"
    /\ j = call.words
    /\ LET f == Flush(wr, mem)
       IN  /\ mem' = f.data
           /\ writtenBytes' = f.writtenBytes
    /\ pc' = "sdone"
    /\ UNCHANGED <<buf, rd, fpOut, result, wr, t, nEscaped, wordData, j, readBack, call, ret, prng, local>>

NextSized == SizeBuffer \/ SizedWrite \/ SizedFlush

SpecSized == InitSized /\ [][NextSized]_vars

(***************************************************************************)
(* A ByteReader that is read on after it has returned Empty: the caller    *)
(* calls Read until it has seen MaxAfterEmpty Empty results, counted in j. *)
(***************************************************************************)
MaxAfterEmpty == 3

\* reader.Read(word), whatever the last result was
DrainRead ==
    /\ pc = "read"
    /\ j < MaxAfterEmpty
    /\ LET r == ReadNext(rd, buf, fpOut)
       IN  /\ rd' = r.rd
           /\ fpOut' = r.fpOut
           /\ result' = r.result
           /\ j' = IF r.result = "Empty" THEN j + 1 ELSE j
    /\ UNCHANGED <<buf, wr, mem, writtenBytes, pc, t, nEscaped, wordData, readBack, call, ret, prng, local>>

NextDrain == DrainRead

SpecDrain == InitByte /\ [][NextDrain]_vars

(***************************************************************************)
(* A ByteReader that is read up to its first Empty, with a record of what  *)
(* each call did: `reads` counts the calls, `successes` those that         *)
(* returned Success, and `loads` lists the loads from the buffer in order, *)
(* each with the offset Data it read at, the number of bytes it took (the  *)
(* decrease of Bytes), the number of unread bytes `left` before it and the *)
(* word it read.                                                           *)
(***************************************************************************)
FullLen == 168

Zeros(n) == [i \in 1..n |-> 0]

\* the buffers of the byte pipeline, and two buffers without any escape: one
\* of FullLen bytes, which 8-byte loads use up while the accumulator still
\* holds a whole word, and one a byte shorter, which ends in a 7-byte load
ScanBuffers == Buffers \cup {Zeros(FullLen - 1), Zeros(FullLen)}

InitScan ==
    \E b \in ScanBuffers :
        /\ buf = b
        /\ rd = BeginRead(Len(b))
        /\ fpOut = U64Zero
        /\ result = "None"
        /\ wr = BeginWrite
        /\ mem = <<>>
        /\ writtenBytes = 0
        /\ pc = "read"
        /\ t = TestBegin
        /\ nEscaped = 0
        /\ wordData = <<>>
        /\ j = 0
        /\ readBack = <<>>
        /\ call = NoCall
        /\ ret = NoCall
        /\ prng = <<>>
        /\ local = [reads |-> 0, successes |-> 0, loads |-> <<>>]

\* reader.Read(word), until it returns Empty
ScanRead ==
    /\ pc = "read"
    /\ result # "Empty"
    /\ LET r == ReadNext(rd, buf, fpOut)
       IN  /\ rd' = r.rd
           /\ fpOut' = r.fpOut
           /\ result' = r.result
           /\ local' = [reads |-> local.reads + 1,
                        successes |-> local.successes
                                      + (IF r.result = "Success" THEN 1 ELSE 0),
                        loads |-> IF r.rd.Bytes # rd.Bytes \/ r.rd.Data # rd.Data
                                  THEN Append(local.loads,
                                              [at |-> rd.Data,
                                               count |-> rd.Bytes - r.rd.Bytes,
                                               left |-> rd.Bytes,
                                               word |-> IF rd.Bytes >= 8
                                                        THEN ReadU64_LE(buf, rd.Data)
                                                        ELSE ReadBytes_LE(buf, rd.Data, rd.Bytes)])
                                  ELSE local.loads]
    /\ UNCHANGED <<buf, wr, mem, writtenBytes, pc, t, nEscaped, wordData, j, readBack, call, ret, prng>>

NextScan == ScanRead

SpecScan == InitScan /\ [][NextScan]_vars

(***************************************************************************)
(* Reference arithmetic modulo p, by the definitions: x mod p is what is   *)
(* left of x after taking away the largest multiple of p not above x, a    *)
(* sum modulo p is the sum less p when it reaches p, and a product modulo  *)
(* p is built by doubling and adding modulo p over one factor's bytes.     *)
(* None of it uses the folding of high bits that the library relies on.    *)
(***************************************************************************)
\* q * p, and the multiples 0*p, 1*p, ..., 8*p of p that fit 64 bits
\* (8*p = 2^64 - 8)
RECURSIVE TimesP(_)
TimesP(q) == IF q = 0 THEN U64Zero ELSE Add64(TimesP(q - 1), kPrime)

PMultiples == [q \in 1..9 |-> TimesP(q - 1)]

\* x % kPrime
ModP(x) ==
    LET q == CHOOSE q \in 1..9 :
                 /\ Geq64(x, PMultiples[q])
                 /\ q < 9 => ~Geq64(x, PMultiples[q + 1])
    IN  Sub64(x, PMultiples[q])

\* (a + b) mod p for a, b below p
AddModP(a, b) ==
    LET s == Add64(a, b)
    IN  IF Geq64(s, kPrime) THEN Sub64(s, kPrime) ELSE s

\* (a * 2^n) mod p for a below p
RECURSIVE DoubleModP(_, _)
DoubleModP(a, n) ==
    IF n = 0 THEN a
    ELSE LET d == DoubleModP(a, n - 1)
         IN  IF d = U64Zero THEN U64Zero ELSE AddModP(d, d)

\* (a * d) mod p for a below p and an integer d below 2^n
RECURSIVE SmallMulModP(_, _, _)
SmallMulModP(a, d, n) ==
    IF n = 0 THEN U64Zero
    ELSE LET h == SmallMulModP(a, d \div 2, n - 1)
             bit == IF d % 2 = 1 THEN a ELSE U64Zero
         IN  IF h = U64Zero THEN bit ELSE AddModP(AddModP(h, h), bit)

\* (a * Y) mod p for a below p, Y the number whose bytes are ly[k], ly[k+1], ...
\* (least significant first): a * ly[k] + 256 * (a * the rest)
RECURSIVE MulModFrom(_, _, _)
MulModFrom(a, ly, k) ==
    IF k > 8 THEN U64Zero
    ELSE LET h == MulModFrom(a, ly, k + 1)
             low == SmallMulModP(a, ly[k], 8)
         IN  IF h = U64Zero THEN low ELSE AddModP(DoubleModP(h, 8), low)

\* (x * y) mod p
MulModP(x, y) == MulModFrom(ModP(x), Bytes64(y), 1)

\* the number of bits of x: 0 for 0, else 1 + the highest set bit
BitLength(x) ==
    IF x = U64Zero THEN 0
    ELSE 1 + CHOOSE i \in BitIdx : x[i] = 1 /\ \A k \in (i + 1)..63 : x[k] = 0

\* x < 2^62: bits #63 and #62 are clear
Below62(x) == x[62] = 0 /\ x[63] = 0

\* floor(bytes * 8 / 61) as a mathematical integer
FloorWords(bytes) == 8 * (bytes \div 61) + (8 * (bytes % 61)) \div 61

(***************************************************************************)
(* The arithmetic calls.  One behaviour is one call of the tests           *)
(* (test_pred, test_fred, test_negate, TestAdd, test_mul, TestMultiply):   *)
(* the function is applied to its arguments and, where the library passes  *)
(* the result on to Finalize, Finalize is applied to what it returned.     *)
(* Arguments are the 64-bit words around every power of two and every      *)
(* multiple of p, and a few words of mixed bits.                           *)
(***************************************************************************)
MaxCountBytes == 128

\* 2^k
Pow2(k) == [i \in BitIdx |-> IF i = k THEN 1 ELSE 0]

\* 2^k - 1
Ones(k) == [i \in BitIdx |-> IF i < k THEN 1 ELSE 0]

\* 0x0123456789abcdef, 0xaaaaaaaaaaaaaaaa, 0x5555555555555555, 0xfedcba9876543210
PatternVals ==
    {FromBytes(<<239, 205, 171, 137, 103, 69, 35, 1>>),
     FromBytes(<<170, 170, 170, 170, 170, 170, 170, 170>>),
     FromBytes(<<85, 85, 85, 85, 85, 85, 85, 85>>),
     FromBytes(<<16, 50, 84, 118, 152, 186, 220, 254>>)}

EdgeVals ==
    {Ones(k) : k \in 0..64}
    \cup {Pow2(k) : k \in 0..63}
    \cup {Add64(Pow2(k), U64(1)) : k \in 1..63}
    \cup {Sub64(Ones(k), U64(1)) : k \in 2..64}

NearMultiples ==
    {PMultiples[q] : q \in 2..9}
    \cup {Add64(PMultiples[q], U64(1)) : q \in 2..9}
    \cup {Sub64(PMultiples[q], U64(1)) : q \in 2..9}

WordInputs == EdgeVals \cup PatternVals \cup NearMultiples

\* 2^62 - 2 = 0x3ffffffffffffffe, the input Finalize is documented to fail for
FinalizeException == Sub64(Ones(62), U64(1))

\* operands of Add4: below 2^62, and one (2^64 - 1) that is not
AddValSeq ==
    <<U64Zero, U64(1), Sub64(kPrime, U64(1)), kPrime, Pow2(61),
      FinalizeException, Ones(62),
      And64(FromBytes(<<239, 205, 171, 137, 103, 69, 35, 1>>), Ones(62)),
      Ones(64)>>

\* operands of Multiply, of 0 to 64 bits
MulValSeq ==
    <<U64Zero, U64(1), U64(3), Add64(Pow2(32), U64(1)),
      Sub64(kPrime, U64(1)), kPrime, Pow2(61), FinalizeException, Ones(62),
      And64(FromBytes(<<170, 170, 170, 170, 170, 170, 170, 170>>), Ones(62)),
      And64(FromBytes(<<239, 205, 171, 137, 103, 69, 35, 241>>), kPrime),
      Pow2(62), Ones(63), Ones(64)>>

\* operands of the chained products of TestMultiply: below 2^62
ChainValSeq ==
    <<U64(3), Sub64(kPrime, U64(1)), Pow2(61), FinalizeException, Ones(62),
      And64(FromBytes(<<239, 205, 171, 137, 103, 69, 35, 241>>), Ones(62))>>

CountInputs ==
    (0..MaxCountBytes)
    \cup {2^29 - 1, 2^29, 2^29 + 8, 2^30 + 61, 2^30 + 2^29 + 123, 2147483647}

\* Add4 adds its four operands in any order: one order of each choice
AddQuads ==
    LET I == 1..Len(AddValSeq)
    IN  {q \in I \X I \X I \X I : q[1] <= q[2] /\ q[2] <= q[3] /\ q[3] <= q[4]}

Calls ==
    {[fn |-> "WordCount", bytes |-> n] : n \in CountInputs}
    \cup {[fn |-> f, x |-> v] : f \in {"PartialReduce", "Finalize", "Negate"},
                               v \in WordInputs}
    \cup {[fn |-> "Add4", x |-> AddValSeq[q[1]], y |-> AddValSeq[q[2]],
           z |-> AddValSeq[q[3]], w |-> AddValSeq[q[4]]] : q \in AddQuads}
    \cup {[fn |-> "Multiply", x |-> MulValSeq[a], y |-> MulValSeq[b]] :
             a \in 1..Len(MulValSeq), b \in 1..Len(MulValSeq)}
    \cup {[fn |-> "MultiplyChain", x |-> ChainValSeq[a], y |-> ChainValSeq[b],
           z |-> ChainValSeq[c]] :
             a \in 1..Len(ChainValSeq), b \in 1..Len(ChainValSeq),
             c \in 1..Len(ChainValSeq)}

InitArith ==
    /\ call \in Calls
    /\ ret = NoCall
    /\ prng = <<>>
    /\ local = NoCall
    /\ pc = "call"
    /\ buf = <<>>
    /\ rd = BeginRead(0)
    /\ fpOut = U64Zero
    /\ result = "None"
    /\ wr = BeginWrite
    /\ mem = <<>>
    /\ writtenBytes = 0
    /\ t = TestBegin
    /\ nEscaped = 0
    /\ wordData = <<>>
    /\ j = 0
    /\ readBack = <<>>

codec == <<buf, rd, fpOut, result, wr, mem, writtenBytes, t, nEscaped,
           wordData, j, readBack>>

\* WordReader::WordCount(bytes)
CallWordCount ==
    /\ pc = "call" /\ call.fn = "WordCount"
    /\ ret' = [count |-> WordCount(call.bytes)]
    /\ pc' = "returned"
    /\ UNCHANGED <<call, codec, prng, local>>

\* fp61::PartialReduce(x)
CallPartialReduce ==
    /\ pc = "call" /\ call.fn = "PartialReduce"
    /\ ret' = [r |-> PartialReduce(call.x), wrapped |-> FALSE]
    /\ pc' = "returned"
    /\ UNCHANGED <<call, codec, prng, local>>

\* fp61::Finalize(x)
CallFinalize ==
    /\ pc = "call" /\ call.fn = "Finalize"
    /\ ret' = [r |-> Finalize(call.x)]
    /\ pc' = "returned"
    /\ UNCHANGED <<call, codec, prng, local>>

\* fp61::Negate(x)
CallNegate ==
    /\ pc = "call" /\ call.fn = "Negate"
    /\ ret' = [r |-> Negate(call.x)]
    /\ pc' = "returned"
    /\ UNCHANGED <<call, codec, prng, local>>

\* fp61::Add4(x, y, z, w)
CallAdd4 ==
    /\ pc = "call" /\ call.fn = "Add4"
    /\ LET s == Add4Steps(call.x, call.y, call.z, call.w)
       IN  ret' = [r |-> s.ret, wrapped |-> s.wrapped]
    /\ pc' = "returned"
    /\ UNCHANGED <<call, codec, prng, local>>

\* fp61::Multiply(x, y)
CallMultiply ==
    /\ pc = "call" /\ call.fn = "Multiply"
    /\ LET s == MultiplySteps(call.x, call.y)
       IN  ret' = [r |-> s.ret, wrapped |-> s.wrapped]
    /\ pc' = "returned"
    /\ UNCHANGED <<call, codec, prng, local>>

\* TestMultiply, "Commutivity test": r, s and t
CallMultiplyChain ==
    /\ pc = "call" /\ call.fn = "MultiplyChain"
    /\ ret' = [r |-> Finalize(Multiply(Multiply(call.z, call.y), call.x)),
               s |-> Finalize(Multiply(Multiply(call.x, call.z), call.y)),
               t |-> Finalize(Multiply(Multiply(call.x, call.y), call.z))]
    /\ pc' = "returned"
    /\ UNCHANGED <<call, codec, prng, local>>

\* fp61::Finalize applied to what PartialReduce, Add4 or Multiply returned
FinalizeResult ==
    /\ pc = "returned" /\ call.fn \in {"PartialReduce", "Add4", "Multiply"}
    /\ ret' = [ret EXCEPT !.r = Finalize(ret.r)]
    /\ pc' = "finalized"
    /\ UNCHANGED <<call, codec, prng, local>>

NextArith ==
    \/ CallWordCount \/ CallPartialReduce \/ CallFinalize \/ CallNegate
    \/ CallAdd4 \/ CallMultiply \/ CallMultiplyChain \/ FinalizeResult

SpecArith == InitArith /\ [][NextArith]_vars

(***************************************************************************)
(* The logical bit streams, for stating the claims.                        *)
(*                                                                         *)
(* What a reader has left to deliver: the low Available bits of Workspace, *)
(* then the bits of the unread bytes, then zeros.  What a writer has       *)
(* produced: the bits of the bytes stored, then the low Available bits of  *)
(* its Workspace.                                                          *)
(***************************************************************************)
ReaderHeld(c) == MaxOf(c.Available, 0)

ReaderStreamLen(c) == ReaderHeld(c) + 8 * c.Bytes

ReaderStreamBit(c, data, k) ==
    IF k < ReaderHeld(c) THEN c.Workspace[k]
    ELSE LET q == k - ReaderHeld(c)
         IN  IF q < 8 * c.Bytes THEN BitOf(data[c.Data + (q \div 8) + 1], q % 8) ELSE 0

\* the next 61 bits of the stream, as a word
ReaderChunk(c, data) ==
    [i \in BitIdx |-> IF i < 61 THEN ReaderStreamBit(c, data, i) ELSE 0]

WriterBits(w) == 8 * w.DataWritePtr + w.Available

WriterStreamBit(w, data, k) ==
    IF k < 8 * w.DataWritePtr THEN BitOf(data[(k \div 8) + 1], k % 8)
    ELSE w.Workspace[k - 8 * w.DataWritePtr]

\* bit k of a byte array read as a little-endian bit stream
MemBit(data, k) == BitOf(data[(k \div 8) + 1], k % 8)

\* a step of ByteReader::Read that returned Success
ReadSucceeded == pc = "read" /\ pc' = "write"

(***************************************************************************)
(* Claims about the byte codec                                             *)
(***************************************************************************)

\* C1: byte round trip.  Once the loop has read every word of buf, written
\* each to the ByteWriter and flushed, the first Len(buf) bytes of the output
\* are the bytes of buf.
C1_ByteRoundTrip ==
    pc = "done" =>
        /\ Len(mem) >= Len(buf)
        /\ \A i \in 1..Len(buf) : mem[i] = buf[i]

\* C2: every value ByteReader::Read returns with Success is below p.
C2_SuccessBelowPrime ==
    result = "Success" => ~Geq64(fpOut, kPrime)

\* C2 witness: a Read has returned the placeholder for a chunk of all ones
\* (the inserted bit is 1), the one raw value that is not below p.
C2_Witness ==
    /\ pc = "write" /\ result = "Success"
    /\ fpOut = kAmbiguity /\ rd.Available >= 1 /\ rd.Workspace[0] = 1

WriteDone == pc = "write" /\ pc' = "read"

\* the step appended exactly the low `width` bits of fpOut to the writer's
\* stream and changed no bit written before
WriteAppends(width) ==
    /\ WriterBits(wr') = WriterBits(wr) + width
    /\ \A k \in 0..(WriterBits(wr) - 1) :
           WriterStreamBit(wr', mem', k) = WriterStreamBit(wr, mem, k)
    /\ \A k \in 0..(width - 1) :
           WriterStreamBit(wr', mem', WriterBits(wr) + k) = fpOut[k]

\* C4, as claimed: ByteWriter::Write appends 60 bits when the value is the
\* placeholder A = p-1 and 61 bits for every other value, so the low bit of the
\* next value lands in the last position of the placeholder's 61-bit slot.
C4_WriterEscapeAsClaimed ==
    [][WriteDone => WriteAppends(IF fpOut = kAmbiguity THEN 60 ELSE 61)]_vars

\* C4, amended: ByteWriter::Write appends 60 bits when the value is
\* kAmbiguityMask = 2^60-1 and 61 bits for every other value (p-1 included), so
\* the low bit of the next value lands at bit 60 of the slot of a 2^60-1.
C4_WriterEscape ==
    [][WriteDone => WriteAppends(IF fpOut = kAmbiguityMask THEN 60 ELSE 61)]_vars

\* C4 witness: 2^60-1 was written first, as 60 bits, and one more value after
\* it, whose low bit 1 is now bit 60 of the stream.
C4_Witness ==
    /\ pc = "read" /\ WriterBits(wr) = 121
    /\ \A k \in 0..60 : WriterStreamBit(wr, mem, k) = 1

\* C5: the escape rule as the header and test_byte_reader state it.  A chunk is
\* ambiguous exactly when its low 60 bits are all ones; Read then returns
\* 2^60-1 and inserts the chunk's bit 60 in front of the remaining stream; any
\* other chunk is returned unchanged; and every value returned is the test's
\* reference value, computed from the buffer at the offset the test keeps.
C5_HeaderEscape ==
    [][ReadSucceeded =>
        LET chunk == ReaderChunk(rd, buf)
            behind == MaxOf(ReaderStreamLen(rd) - 61, 0)
        IN  /\ IF IsU64Ambiguous(chunk)
               THEN /\ fpOut' = kAmbiguityMask
                    /\ ReaderStreamLen(rd') = behind + 1
                    /\ ReaderStreamBit(rd', buf, 0) = chunk[60]
               ELSE /\ fpOut' = chunk
                    /\ ReaderStreamLen(rd') = behind
            /\ fpOut' = t'.x
      ]_vars

\* the buffer of the concrete case: 254, 255, 255, 255, 255, 255, 255, 255
Case6 == [i \in 1..8 |-> IF i = 1 THEN 254 ELSE 255]

\* C6: reading Case6 yields the placeholder p-1 first, with the bit 0 inserted
\* in front of the following value, and writing the values read back and
\* flushing reproduces the same 8 bytes.
C6_ConcreteCase ==
    buf = Case6 =>
        /\ (pc = "write" /\ t.actualReads = 1) =>
               (fpOut = kAmbiguity /\ rd.Available >= 1 /\ rd.Workspace[0] = 0)
        /\ pc = "done" =>
               (Len(mem) >= 8 /\ \A i \in 1..8 : mem[i] = Case6[i])

\* C7: the number of Success results never exceeds MaxWords(n).
C7_MaxWordsBound ==
    t.actualReads <= MaxWords(Len(buf))

\* C8: at the first Empty the number of Success results is
\* ceil((8n + a) / 61), a the number of placeholders returned (0 reads for
\* n = 0), and nothing is left unread: no byte and no accumulator bit.
C8_ReadCount ==
    result = "Empty" =>
        LET total == 8 * Len(buf) + nEscaped
        IN  /\ 61 * t.actualReads >= total
            /\ 61 * (t.actualReads - 1) < total
            /\ (Len(buf) = 0 => t.actualReads = 0)
            /\ rd.Bytes = 0
            /\ rd.Available <= 0

\* C8 witness: Empty was returned after reads two of which were escaped.
C8_Witness ==
    result = "Empty" /\ nEscaped >= 2 /\ t.actualReads >= 3

(***************************************************************************)
(* Claims about the word codec                                             *)
(***************************************************************************)

\* C9: word round trip.  The words WordReader::Read returns are the words
\* written, in order.
C9_WordRoundTrip ==
    pc = "wread" =>
        \A i \in 1..Len(readBack) : readBack[i] = wordData[i]

\* C10: the wire format.  After Flush, bit b of word i is bit 61*i + b of the
\* bytes written, and every bit of those bytes from position 61*n on is 0.
C10_WireFormat ==
    pc = "wread" =>
        LET n == Len(wordData)
        IN  /\ 8 * Len(mem) >= 61 * n
            /\ \A i \in 0..(n - 1) : \A b \in 0..60 :
                   MemBit(mem, 61 * i + b) = wordData[i + 1][b]
            /\ \A k \in (61 * n)..(8 * Len(mem) - 1) : MemBit(mem, k) = 0

\* C10 witness: a flushed run long enough to hold a Write that filled no
\* 64-bit word (the 22nd) and a last byte with padding bits.
C10_Witness ==
    pc = "wread" /\ Len(wordData) >= 22 /\ (61 * Len(wordData)) % 8 # 0

(***************************************************************************)
(* Claims C11..C20                                                         *)
(***************************************************************************)
\* the call of f has returned / its result has been passed through Finalize
Returned(f) == pc = "returned" /\ call.fn = f

Finalized(f) == pc = "finalized" /\ call.fn = f

\* C11: WordCount(bytes) is floor(bytes * 8 / 61), as a mathematical
\* integer, for every argument.
C11_WordCountFloor ==
    Returned("WordCount") => ret.count = FloorWords(call.bytes)

\* C12: after BeginWrite, n Writes and Flush, Flush returned
\* BytesNeeded(n) = ceil(61 * n / 8): the 8 bytes of each of the
\* floor(61 * n / 64) full words stored plus the bytes of the partial tail.
C12_FlushCount ==
    pc = "wread" =>
        LET n == Len(wordData)
        IN  /\ writtenBytes = BytesNeeded(n)
            /\ 8 * BytesNeeded(n) >= 61 * n
            /\ 8 * (BytesNeeded(n) - 1) < 61 * n
            /\ wr.DataWritePtr = 8 * ((61 * n) \div 64)
            /\ writtenBytes = wr.DataWritePtr + (((61 * n) % 64) + 7) \div 8

\* C12 witness: a flush after full words were stored, with a tail that ends
\* inside a byte.
C12_Witness ==
    pc = "wread" /\ wr.DataWritePtr >= 16 /\ wr.Available % 8 # 0

\* C13: when every value read from a buffer of n bytes has been written,
\* Flush returns the number of bytes emitted, which is at most
\* MaxBytesNeeded(MaxWords(n)) and at most n + 8.
C13_FlushBound ==
    pc = "done" =>
        /\ writtenBytes = Len(mem)
        /\ writtenBytes <= MaxBytesNeeded(MaxWords(Len(buf)))
        /\ writtenBytes <= Len(buf) + 8

\* C14: PartialReduce(x) is below 2^62 and congruent to x modulo p.
C14_PartialReduce ==
    Returned("PartialReduce") =>
        Below62(ret.r) /\ ModP(ret.r) = ModP(call.x)

\* C14 witness: an x with bit 63 set whose reduction carries into bit 61.
C14_Witness ==
    Returned("PartialReduce") /\ call.x[63] = 1 /\ ret.r[61] = 1

\* C15: for x below 2^62 other than 2^62 - 2, Finalize(x) is x mod p (and so
\* below p).
C15_Finalize ==
    Returned("Finalize") /\ Below62(call.x) /\ call.x # FinalizeException =>
        ret.r = ModP(call.x) /\ ~Geq64(ret.r, kPrime)

\* C15 witness: Finalize(2^62 - 1) = 1, the largest input of the claim.
C15_Witness ==
    Returned("Finalize") /\ call.x = Ones(62) /\ ret.r = U64(1)

\* C16: no reduction of the library produces 2^62 - 2: PartialReduce(x) is
\* never it, so Finalize(PartialReduce(x)) is x mod p for every x; nor is a
\* result of Add4 or Multiply under their preconditions.
C16_ExceptionUnreachable ==
    /\ Returned("PartialReduce") => ret.r # FinalizeException
    /\ Finalized("PartialReduce") => ret.r = ModP(call.x)
    /\ /\ Returned("Add4")
       /\ Below62(call.x) /\ Below62(call.y) /\ Below62(call.z) /\ Below62(call.w)
       => ret.r # FinalizeException
    /\ Returned("Multiply") /\ BitLength(call.x) + BitLength(call.y) <= 124
       => ret.r # FinalizeException

\* C16 witness: x = 2^62 - 2 itself, reduced to p and finalized to 0.
C16_Witness ==
    Finalized("PartialReduce") /\ call.x = FinalizeException /\ ret.r = U64Zero

\* C17: for a, b, c, d below 2^62 the sum in Add4 does not wrap, and the
\* result is below 2^62 and congruent to a + b + c + d modulo p.
C17_Add4 ==
    /\ Returned("Add4")
    /\ Below62(call.x) /\ Below62(call.y) /\ Below62(call.z) /\ Below62(call.w)
    => /\ ~ret.wrapped
       /\ Below62(ret.r)
       /\ ModP(ret.r) = AddModP(AddModP(ModP(call.x), ModP(call.y)),
                                AddModP(ModP(call.z), ModP(call.w)))

\* C17 witness: the largest operands, four times 2^62 - 1.
C17_Witness ==
    /\ Returned("Add4")
    /\ call.x = Ones(62) /\ call.y = Ones(62) /\ call.z = Ones(62) /\ call.w = Ones(62)

\* C18: for x <= p, Negate(x) is in [0, p] and x + Negate(x) is congruent to
\* 0 modulo p.
C18_Negate ==
    Returned("Negate") /\ Geq64(kPrime, call.x) =>
        /\ Geq64(kPrime, ret.r)
        /\ AddC(call.x, ret.r).carry = 0
        /\ ModP(Add64(call.x, ret.r)) = U64Zero

\* C18 witness: a negation of a value strictly between 0 and p.
C18_Witness ==
    Returned("Negate") /\ call.x = Pow2(60) /\ ret.r = Ones(60)

\* C19: when bitlength(x) + bitlength(y) <= 124, Multiply(x, y) is below
\* 2^62 and congruent to x * y modulo p, and no 64-bit addition in it wraps.
C19_Multiply ==
    Returned("Multiply") /\ BitLength(call.x) + BitLength(call.y) <= 124 =>
        /\ ~ret.wrapped
        /\ Below62(ret.r)
        /\ ModP(ret.r) = MulModP(call.x, call.y)

\* C19 witness: operands of 61 and 63 bits, all ones.
C19_Witness ==
    Returned("Multiply") /\ call.x = kPrime /\ call.y = Ones(63)

\* C20: for x, y, z below 2^62 the three finalized products
\* (z*y)*x, (x*z)*y and (x*y)*z are equal.
C20_ChainEqual ==
    /\ Returned("MultiplyChain")
    /\ Below62(call.x) /\ Below62(call.y) /\ Below62(call.z)
    => ret.r = ret.s /\ ret.s = ret.t

\* C20 witness: three different operands, among them 2^62 - 1, and a product
\* that is not 0.
C20_Witness ==
    /\ Returned("MultiplyChain")
    /\ call.x # call.y /\ call.y # call.z /\ call.x # call.z
    /\ call.z = Ones(62)
    /\ ret.r # U64Zero

(***************************************************************************)
(* Random numbers and hashing (fp61.h, fp61.cpp).  A Random is its State,  *)
(* the four words State[0..3].                                             *)
(***************************************************************************)
Xor64(a, b) == [i \in BitIdx |-> (a[i] + b[i]) % 2]

\* CAT_ROL64(x, bits)
CAT_ROL64(x, bits) == Or64(Shl64(x, bits), Shr64(x, 64 - bits))

\* the product of two uint64_t, which keeps the low 64 bits
Mul64(x, y) == Mul128(x, y).p_lo

\* 0x9e3779b97f4a7c15
kGolden == FromBytes(<<21, 124, 74, 127, 185, 121, 55, 158>>)

\* 0xbf58476d1ce4e5b9
kMix1 == FromBytes(<<185, 229, 228, 28, 109, 71, 88, 191>>)

\* 0x94d049bb133111eb
kMix2 == FromBytes(<<235, 17, 49, 19, 187, 73, 208, 148>>)

\* TRUE.  Where it stands as the guard of a CASE the bits of x are computed
\* there, before x is handed on, which keeps the evaluation of a chain of
\* 64-bit operations shallow
Computed(x) == x = x

\* z = (z ^ (z >> shift)) * mult
MixStep(z, shift, mult) ==
    LET v == Xor64(z, Shr64(z, shift))
    IN  CASE Computed(z) /\ Computed(v) -> Mul64(v, mult)

\* static uint64_t HashU64(uint64_t x)
HashU64(x) ==
    LET z1 == MixStep(Add64(x, kGolden), 30, kMix1)
        z2 == MixStep(z1, 27, kMix2)
    IN  CASE Computed(z1) /\ Computed(z2) -> Xor64(z2, Shr64(z2, 31))

\* h = HashU64(x); h = HashU64(h); ...: the first n values of h
RECURSIVE HashChain(_, _)
HashChain(x, n) ==
    IF n = 0 THEN <<>>
    ELSE LET h == HashU64(x)
         IN  CASE Computed(h) -> <<h>> \o HashChain(h, n - 1)

\* mutant of Random_Seed: the last word of State is left as it was
Random_SeedThree(State, x) ==
    LET h == HashChain(x, 3)
    IN  [State EXCEPT ![0] = h[1], ![1] = h[2], ![2] = h[3]]

\* void Random::Seed(uint64_t x)
Random_Seed(State, x) ==
    LET h == HashChain(x, 4)
    IN  [State EXCEPT ![0] = h[1], ![1] = h[2], ![2] = h[3], ![3] = h[4]]

\* uint64_t Random::Next(): the number returned and the State stored
Random_Next(State) ==
    LET s0 == State[0]
        s1 == State[1]
        s2 == State[2]
        s3 == State[3]
        t2 == Xor64(s2, s0)
        t3 == Xor64(s3, s1)
    IN  [result |-> Add64(s0, s3),
         State |-> [i \in 0..3 |->
                      CASE i = 0 -> Xor64(s0, t3)
                        [] i = 1 -> Xor64(s1, t2)
                        [] i = 2 -> Xor64(t2, Shl64(s1, 17))
                        [] i = 3 -> CAT_ROL64(t3, 45)]]

\* mutant of ConvertRandToFp: the all-ones pattern is not taken down
ConvertRandToFpShift(word) == Shr64(word, 3)

\* static uint64_t Random::ConvertRandToFp(uint64_t word)
ConvertRandToFp(word) ==
    LET w == Shr64(word, 3)
    IN  Sub64(w, Shr64(Add64(w, U64(1)), 61))

\* static uint64_t Random::ConvertRandToNonzeroFp(uint64_t word)
ConvertRandToNonzeroFp(word) ==
    LET w == ConvertRandToFp(word)
    IN  Add64(w, Shr64(Sub64(w, U64(1)), 63))

\* mutant of HashToNonzeroFp: the step that takes 0 to 1 is left out
HashToFp(word) ==
    LET w == Shr64(MixStep(Add64(word, kGolden), 30, kMix1), 3)
    IN  CASE Computed(w) -> Sub64(w, Shr64(Add64(w, U64(1)), 61))

\* uint64_t HashToNonzeroFp(uint64_t word)
HashToNonzeroFp(word) ==
    LET w == Shr64(MixStep(Add64(word, kGolden), 30, kMix1), 3)
        v == Sub64(w, Shr64(Add64(w, U64(1)), 61))
    IN  CASE Computed(w) /\ Computed(v) -> Add64(v, Shr64(Sub64(v, U64(1)), 63))

(***************************************************************************)
(* The generators at work.  A Random object is constructed with State not  *)
(* initialised: any words may be in it.  The callers of the repository     *)
(* seed an instance before they draw from it and may seed it again at any  *)
(* time (TestIntegration).  For each instance the model records the last   *)
(* seed, the number of Seed calls, and the numbers Next has returned since *)
(* the last Seed.  The conversions and the hash are called on raw words    *)
(* and keys that include the patterns they treat specially.                *)
(***************************************************************************)
MaxDraws == 3

MaxSeeds == 2

MaxKey == 40

RandomIds == 1..2

\* prng.Seed(0), Seed(1), Seed(11) of the tests
Seeds == {U64Zero, U64(1), U64(11)}

\* what the memory of a Random that was never seeded may hold
Uninitialized == {[i \in 0..3 |-> U64Zero], [i \in 0..3 |-> Ones(64)]}

\* the top 61 bits of a raw word: TestRandom takes i and kPrime + i for i
\* around 0, which is around 0 and around 2^61 - 1 in 61 bits
TopPatterns ==
    {U64Zero, U64(1), U64(2), Pow2(60), Mixed61,
     Sub64(kPrime, U64(2)), Sub64(kPrime, U64(1)), kPrime}

RawWords ==
    WordInputs
    \cup {Or64(Shl64(tp, 3), U64(low)) : tp \in TopPatterns, low \in {0, 5, 7}}

\* keys of HashToNonzeroFp: small keys, and the keys whose mixed word has
\* the top 61 bits 0 (0x61c8864680b583eb), 1 (0x18b95f01a4056a8f),
\* 2^61 - 2 (0xf3e6d4d4c7555134) and 2^61 - 1 (0xaad7ad8da4056a8f)
HashKeys ==
    {U64(n) : n \in 0..MaxKey}
    \cup {Ones(64),
          FromBytes(<<235, 131, 181, 128, 70, 134, 200, 97>>),
          FromBytes(<<143, 106, 5, 164, 1, 95, 185, 24>>),
          FromBytes(<<52, 81, 85, 199, 212, 212, 230, 243>>),
          FromBytes(<<143, 106, 5, 164, 141, 173, 215, 170>>)}

RandomCalls ==
    {[fn |-> f, word |-> w] :
        f \in {"ConvertRandToFp", "ConvertRandToNonzeroFp"}, w \in RawWords}
    \cup {[fn |-> "HashToNonzeroFp", word |-> k] : k \in HashKeys}

InitRandom ==
    /\ \/ /\ pc = "prng"
          /\ prng \in [RandomIds -> {[State |-> u, seed |-> <<>>, nSeeds |-> 0,
                                      draws |-> <<>>] : u \in Uninitialized}]
          /\ call = NoCall
       \/ /\ pc = "call"
          /\ prng = <<>>
          /\ call \in RandomCalls
    /\ ret = NoCall
    /\ local = NoCall
    /\ buf = <<>>
    /\ rd = BeginRead(0)
    /\ fpOut = U64Zero
    /\ result = "None"
    /\ wr = BeginWrite
    /\ mem = <<>>
    /\ writtenBytes = 0
    /\ t = TestBegin
    /\ nEscaped = 0
    /\ wordData = <<>>
    /\ j = 0
    /\ readBack = <<>>

\* prng.Seed(s)
RandomSeed ==
    /\ pc = "prng"
    /\ \E i \in RandomIds, s \in Seeds :
          /\ prng[i].nSeeds < MaxSeeds
          /\ prng' = [prng EXCEPT ![i] =
                        [State |-> Random_Seed(@.State, s), seed |-> <<s>>,
                         nSeeds |-> @.nSeeds + 1, draws |-> <<>>]]
    /\ UNCHANGED <<pc, call, ret, local, codec>>

\* prng.Next()
RandomNext ==
    /\ pc = "prng"
    /\ \E i \in RandomIds :
          /\ prng[i].seed # <<>>
          /\ Len(prng[i].draws) < MaxDraws
          /\ LET n == Random_Next(prng[i].State)
             IN  prng' = [prng EXCEPT ![i].State = n.State,
                                      ![i].draws = Append(@, n.result)]
    /\ UNCHANGED <<pc, call, ret, local, codec>>

\* fp61::Random::ConvertRandToFp(word)
CallConvertRandToFp ==
    /\ pc = "call" /\ call.fn = "ConvertRandToFp"
    /\ ret' = [r |-> ConvertRandToFp(call.word)]
    /\ pc' = "returned"
    /\ UNCHANGED <<call, codec, prng, local>>

\* fp61::Random::ConvertRandToNonzeroFp(word)
CallConvertRandToNonzeroFp ==
    /\ pc = "call" /\ call.fn = "ConvertRandToNonzeroFp"
    /\ ret' = [r |-> ConvertRandToNonzeroFp(call.word)]
    /\ pc' = "returned"
    /\ UNCHANGED <<call, codec, prng, local>>

\* fp61::HashToNonzeroFp(word)
CallHashToNonzeroFp ==
    /\ pc = "call" /\ call.fn = "HashToNonzeroFp"
    /\ ret' = [r |-> HashToNonzeroFp(call.word)]
    /\ pc' = "returned"
    /\ UNCHANGED <<call, codec, prng, local>>

NextRandom ==
    \/ RandomSeed \/ RandomNext
    \/ CallConvertRandToFp \/ CallConvertRandToNonzeroFp \/ CallHashToNonzeroFp

SpecRandom == InitRandom /\ [][NextRandom]_vars

(***************************************************************************)
(* Inverse (fp61.cpp): the extended Euclidean algorithm on (x mod p, p).   *)
(* The quotient and the remainder of two uint64_t are computed by long     *)
(* division, one bit of the dividend at a time from bit 63 down.           *)
(***************************************************************************)
\* one step of the long division of n by d: bit i of n is brought down to
\* the remainder, and d is taken off where it fits
DivBit(st, n, d, i) ==
    LET r2 == Or64(Shl64(st.r, 1), U64(n[i]))
    IN  IF st.r[63] = 1 \/ Geq64(r2, d)
        THEN [q |-> [st.q EXCEPT ![i] = 1], r |-> Sub64(r2, d)]
        ELSE [q |-> st.q, r |-> r2]

\* the steps for the bits i down to lo
RECURSIVE DivBits(_, _, _, _, _)
DivBits(st, n, d, i, lo) ==
    LET s == DivBit(st, n, d, i)
    IN  CASE Computed(s.q) /\ Computed(s.r) ->
             IF i = lo THEN s ELSE DivBits(s, n, d, i - 1, lo)

\* the quotient and remainder so far when the bytes 7 down to k are done
RECURSIVE DivBytes(_, _, _)
DivBytes(n, d, k) ==
    LET prev == IF k = 7 THEN [q |-> U64Zero, r |-> U64Zero]
                ELSE DivBytes(n, d, k + 1)
    IN  CASE Computed(prev.q) /\ Computed(prev.r) ->
             DivBits(prev, n, d, 8 * k + 7, 8 * k)

\* n / d and n % d on uint64_t, d not 0
DivMod64(n, d) == DivBytes(n, d, 0)

\* mutant of InverseResidue: the argument is masked to 61 bits
InverseResidueMask(u) == And64(u, kPrime)

\* u3 = u % kPrime;
InverseResidue(u) == DivMod64(u, kPrime).r

\* the update with the quotient counted twice: a += 2 * qt * b
InverseAccumulateTwice(a, qt, b) == Add64(a, Mul64(qt, Shl64(b, 1)))

\* mutant of InverseAccumulate: the quotient is left out of the update
InverseAccumulateOne(a, qt, b) == Add64(a, b)

\* u1 += qt * v1;  and  v1 += qt * u1;
InverseAccumulate(a, qt, b) == Add64(a, Mul64(qt, b))

\* return u3 == 1 ? u1 : 0;
InverseFromU(u3, u1) == IF u3 = U64(1) THEN u1 ELSE U64Zero

\* mutant of InverseFromV: the sign of the coefficient is not put right
InverseFromVRaw(v3, v1) == IF v3 = U64(1) THEN v1 ELSE U64Zero

\* return v3 == 1 ? kPrime - v1 : 0;
InverseFromV(v3, v1) == IF v3 = U64(1) THEN Sub64(kPrime, v1) ELSE U64Zero

\* u1 += qt * v1 (and v1 += qt * u1) computed in 64 bits: TRUE when the
\* product or the sum does not fit, so that the stored value has wrapped
InverseAccumulateWraps(a, qt, b) ==
    LET m == Mul128(qt, b)
    IN  CASE Computed(m) ->
             \/ m.p_hi # U64Zero
             \/ AddC(a, m.p_lo).carry = 1

\* kPrime - v1 of the last return: TRUE when v1 is above kPrime
InverseFromVWraps(v3, v1) == v3 = U64(1) /\ SubB(kPrime, v1).borrow = 1

\* Inverse up to the loop.  The record holds the function's local variables
\* (v1 and v3 are not yet assigned at the first return), `at` says where
\* control is: at the "top" of the loop body, in the "middle" of it, or at
\* a "return", with the value returned in ret.  `wrapped` records whether
\* any 64-bit operation of the call so far has wrapped, `steps` counts the
\* divisions of the loop.
InverseBegin(u) ==
    LET u3 == InverseResidue(u)
    IN  CASE Computed(u3) ->
             IF u3 = U64Zero
             THEN [at |-> "return", ret |-> U64Zero, u1 |-> U64(1), u3 |-> u3,
                   wrapped |-> FALSE, steps |-> 0]
             ELSE LET dv == DivMod64(kPrime, u3)
                  IN  [at |-> "top", ret |-> U64Zero, u1 |-> U64(1), u3 |-> u3,
                       v1 |-> dv.q, v3 |-> dv.r, wrapped |-> FALSE, steps |-> 0]

\* the first half of the loop body with one subtraction in place of the
\* division: u3 -= v3; u1 += v1
InverseTopSubtract(l) ==
    IF l.v3 = U64Zero
    THEN [l EXCEPT !.at = "return", !.ret = InverseFromU(l.u3, l.u1)]
    ELSE [l EXCEPT !.at = "middle", !.u3 = Sub64(l.u3, l.v3),
                   !.u1 = Add64(l.u1, l.v1), !.steps = l.steps + 1]

\* the first half of the loop body
InverseTop(l) ==
    IF l.v3 = U64Zero
    THEN [l EXCEPT !.at = "return", !.ret = InverseFromU(l.u3, l.u1)]
    ELSE LET dv == DivMod64(l.u3, l.v3)
         IN  [l EXCEPT !.at = "middle", !.u3 = dv.r, !.steps = l.steps + 1,
                       !.u1 = InverseAccumulate(l.u1, dv.q, l.v1),
                       !.wrapped = l.wrapped
                                   \/ InverseAccumulateWraps(l.u1, dv.q, l.v1)]

\* the second half of the loop body
InverseMiddle(l) ==
    IF l.u3 = U64Zero
    THEN [l EXCEPT !.at = "return", !.ret = InverseFromV(l.v3, l.v1),
                   !.wrapped = l.wrapped \/ InverseFromVWraps(l.v3, l.v1)]
    ELSE LET dv == DivMod64(l.v3, l.u3)
         IN  [l EXCEPT !.at = "top", !.v3 = dv.r, !.steps = l.steps + 1,
                       !.v1 = InverseAccumulate(l.v1, dv.q, l.u1),
                       !.wrapped = l.wrapped
                                   \/ InverseAccumulateWraps(l.v1, dv.q, l.u1)]

(***************************************************************************)
(* Inverse at work: test_inv (tests.cpp) calls Inverse(x) and multiplies   *)
(* the result by the partially reduced x; TestIntegration multiplies a     *)
(* word r by a coefficient and later by the inverse of the coefficient.    *)
(* An Inverse call runs one half of its loop body per step.                *)
(***************************************************************************)
MaxSmall == 12

\* arguments of test_inv: small values, multiples of p and their neighbours,
\* bit patterns, and 0x13c6ef372fe9498c, a value near p / 1.618 for which
\* the loop runs 34 times
InverseInputs ==
    {U64(n) : n \in 0..MaxSmall}
    \cup NearMultiples \cup PatternVals
    \cup {Ones(64), Pow2(63), Sub64(kPrime, U64(2)), kGolden, kMix1,
          FromBytes(<<140, 73, 233, 47, 55, 239, 198, 19>>)}

\* the words r of TestIntegration: finalized, in [0, p)
RecoverWords ==
    {U64Zero, U64(1), Pow2(60), Mixed61, kAmbiguityMask, Sub64(kPrime, U64(1))}

\* the coefficients of TestIntegration: NextNonzeroFp(), in [1, p)
RecoverCoeffs ==
    {U64(1), U64(2), Pow2(60), Mixed61, Sub64(kPrime, U64(1)),
     ConvertRandToNonzeroFp(kMix2),
     FromBytes(<<140, 73, 233, 47, 55, 239, 198, 19>>)}

InverseCalls ==
    {[fn |-> "Inverse", x |-> v] : v \in InverseInputs}
    \cup {[fn |-> "Recover", r |-> w, c |-> k] :
             w \in RecoverWords, k \in RecoverCoeffs}

InitInverse ==
    /\ call \in InverseCalls
    /\ ret = NoCall
    /\ local = NoCall
    /\ pc = "call"
    /\ prng = <<>>
    /\ buf = <<>>
    /\ rd = BeginRead(0)
    /\ fpOut = U64Zero
    /\ result = "None"
    /\ wr = BeginWrite
    /\ mem = <<>>
    /\ writtenBytes = 0
    /\ t = TestBegin
    /\ nEscaped = 0
    /\ wordData = <<>>
    /\ j = 0
    /\ readBack = <<>>

\* uint64_t i = fp61::Inverse(x); and uint64_t inv_coeff = fp61::Inverse(coeff);
\* up to the loop
InverseEnter ==
    /\ pc = "call"
    /\ local' = InverseBegin(IF call.fn = "Inverse" THEN call.x ELSE call.c)
    /\ pc' = "inverse"
    /\ UNCHANGED <<call, ret, codec, prng>>

\* half of the loop body
InverseLoop ==
    /\ pc = "inverse"
    /\ local.at \in {"top", "middle"}
    /\ local' = IF local.at = "top" THEN InverseTop(local) ELSE InverseMiddle(local)
    /\ UNCHANGED <<pc, call, ret, codec, prng>>

\* Inverse returns
InverseReturn ==
    /\ pc = "inverse"
    /\ local.at = "return"
    /\ ret' = [i |-> local.ret]
    /\ pc' = "returned"
    /\ UNCHANGED <<call, local, codec, prng>>

\* test_inv after the call: x = PartialReduce(x); p = Multiply(x, i);
\* Finalize(p)
TestInverse ==
    /\ pc = "returned" /\ call.fn = "Inverse"
    /\ LET prod == MultiplySteps(PartialReduce(call.x), ret.i)
       IN  ret' = [i |-> ret.i, p |-> prod.ret, f |-> Finalize(prod.ret)]
    /\ pc' = "tested"
    /\ UNCHANGED <<call, local, codec, prng>>

\* TestIntegration: f = Finalize(Multiply(r, coeff)), written and read back;
\* x = Finalize(Multiply(f, inv_coeff))
Recover ==
    /\ pc = "returned" /\ call.fn = "Recover"
    /\ LET f == Finalize(Multiply(call.r, call.c))
       IN  CASE Computed(f) ->
                ret' = [i |-> ret.i, f |-> f, x |-> Finalize(Multiply(f, ret.i))]
    /\ pc' = "tested"
    /\ UNCHANGED <<call, local, codec, prng>>

NextInverse ==
    InverseEnter \/ InverseLoop \/ InverseReturn \/ TestInverse \/ Recover

SpecInverse == InitInverse /\ [][NextInverse]_vars

(***************************************************************************)
(* Lazy reduction (fp61.h, benchmarks.cpp Encode): values, or results of   *)
(* Multiply, are added up with the plain 64-bit + and the sum is partially *)
(* reduced once at the end.  A step adds one term; ret holds the sum, the  *)
(* terms added, and whether an addition carried out of bit 63.             *)
(***************************************************************************)
\* Addition of 8 values can be evaluated before reduction.
LazyAdditions == 8

\* Sums of 4 products can be evaluated with partial reductions.
LazyProducts == 4

\* values below 2^61
LazyVals == <<U64Zero, Mixed61, Sub64(kPrime, U64(1)), kPrime>>

\* operands of Multiply: within its input restriction except the fifth pair
LazyPairs ==
    <<[x |-> U64Zero, y |-> kPrime],
      [x |-> Sub64(kPrime, U64(1)), y |-> Mixed61],
      [x |-> kPrime, y |-> Ones(63)],
      [x |-> Ones(62), y |-> Ones(62)],
      [x |-> Ones(64), y |-> Ones(64)]>>

\* the choices of n of m things, in one order each
Choices(n, m) ==
    {c \in [1..n -> 1..m] : \A i \in 1..(n - 1) : c[i] <= c[i + 1]}

LazyCalls ==
    {[fn |-> "Sum", xs |-> [i \in 1..LazyAdditions |-> LazyVals[c[i]]]] :
        c \in Choices(LazyAdditions, Len(LazyVals))}
    \cup {[fn |-> "SumProducts", xs |-> [i \in 1..LazyProducts |-> LazyPairs[c[i]]]] :
             c \in Choices(LazyProducts, Len(LazyPairs))}

InitLazy ==
    /\ call \in LazyCalls
    /\ ret = [sum |-> U64Zero, terms |-> <<>>, wrapped |-> FALSE]
    /\ local = NoCall
    /\ pc = "sum"
    /\ prng = <<>>
    /\ buf = <<>>
    /\ rd = BeginRead(0)
    /\ fpOut = U64Zero
    /\ result = "None"
    /\ wr = BeginWrite
    /\ mem = <<>>
    /\ writtenBytes = 0
    /\ t = TestBegin
    /\ nEscaped = 0
    /\ wordData = <<>>
    /\ j = 0
    /\ readBack = <<>>

\* sum += x;  and  sum += fp61::Multiply(coeff, fpword);
LazyAdd ==
    /\ pc = "sum"
    /\ Len(ret.terms) < Len(call.xs)
    /\ LET x == call.xs[Len(ret.terms) + 1]
           term == IF call.fn = "Sum" THEN x ELSE Multiply(x.x, x.y)
           s == AddC(ret.sum, term)
       IN  CASE Computed(term) ->
                ret' = [sum |-> s.sum, terms |-> Append(ret.terms, term),
                        wrapped |-> ret.wrapped \/ s.carry = 1]
    /\ UNCHANGED <<pc, call, local, codec, prng>>

\* sum = fp61::PartialReduce(sum);
LazyReduce ==
    /\ pc = "sum"
    /\ Len(ret.terms) = Len(call.xs)
    /\ ret' = [sum |-> ret.sum, terms |-> ret.terms, wrapped |-> ret.wrapped,
               r |-> PartialReduce(ret.sum)]
    /\ pc' = "reduced"
    /\ UNCHANGED <<call, local, codec, prng>>

NextLazy == LazyAdd \/ LazyReduce

SpecLazy == InitLazy /\ [][NextLazy]_vars

(***************************************************************************)
(* Claims C21 to C30.                                                      *)
(***************************************************************************)
Tested(f) == pc = "tested" /\ call.fn = f

\* C21: for every 64-bit x with x mod p # 0,
\* Finalize(Multiply(PartialReduce(x), Inverse(x))) = 1.
C21_InverseProduct ==
    (Tested("Inverse") /\ ModP(call.x) # U64Zero) => ret.f = U64(1)

\* test_inv has run for an x above p whose Euclidean loop ran to its second
\* return
C21_Witness ==
    /\ Tested("Inverse")
    /\ Geq64(call.x, Pow2(62))
    /\ local.u3 = U64Zero
    /\ ret.f = U64(1)

\* C22: Inverse(x) = 0 exactly when x mod p = 0, and otherwise
\* 0 < Inverse(x) < p.
C22_InverseRange ==
    Returned("Inverse") =>
        /\ ret.i = U64Zero <=> ModP(call.x) = U64Zero
        /\ ~Geq64(ret.i, kPrime)

\* Inverse has returned 0 for a multiple of p that is not 0
C22_Witness ==
    /\ Returned("Inverse")
    /\ call.x # U64Zero
    /\ ModP(call.x) = U64Zero
    /\ ret.i = U64Zero

\* C26: for every finalized r in [0, p) and every coefficient c in [1, p),
\* Finalize(Multiply(Finalize(Multiply(r, c)), Inverse(c))) = r.
C26_CoefficientRoundTrip ==
    Tested("Recover") => ret.x = call.r

\* a word that is neither 0 nor 1 has been recovered from its product with
\* a coefficient that is neither 1 nor its own inverse
C26_Witness ==
    /\ Tested("Recover")
    /\ call.r = Mixed61
    /\ ret.i # call.c
    /\ ret.f # call.r
    /\ ret.x = call.r

\* C23: after Seed(s) the numbers Next returns depend on s alone: two
\* instances last seeded with the same s, whatever was in them before and
\* whatever was drawn from them before that Seed, have returned the same
\* numbers in the same order.
C23_SeedDeterminism ==
    pc = "prng" =>
        \A a, b \in RandomIds :
            (prng[a].seed # <<>> /\ prng[a].seed = prng[b].seed) =>
                \A k \in 1..Len(prng[a].draws) :
                    k <= Len(prng[b].draws) => prng[a].draws[k] = prng[b].draws[k]

\* an instance seeded once and an instance seeded a second time, with the
\* same seed, from different initial memory, after MaxDraws draws each
C23_Witness ==
    /\ pc = "prng"
    /\ prng[1].seed # <<>> /\ prng[1].seed = prng[2].seed
    /\ prng[1].nSeeds = 1 /\ prng[2].nSeeds = 2
    /\ Len(prng[1].draws) = MaxDraws /\ Len(prng[2].draws) = MaxDraws
    /\ prng[1].draws[1] # prng[1].draws[2]

\* C24: ConvertRandToFp returns a value in [0, p) and ConvertRandToNonzeroFp
\* a value in [1, p), for every raw word; the value is the word's top 61
\* bits except that 2^61 - 1 is returned as p - 1 and, by the nonzero
\* variant, 0 as 1.
C24_ConvertRange ==
    /\ Returned("ConvertRandToFp") =>
          /\ ~Geq64(ret.r, kPrime)
          /\ ret.r = IF Shr64(call.word, 3) = kPrime
                     THEN Sub64(kPrime, U64(1)) ELSE Shr64(call.word, 3)
    /\ Returned("ConvertRandToNonzeroFp") =>
          /\ ~Geq64(ret.r, kPrime)
          /\ ret.r # U64Zero
          /\ ret.r = IF Shr64(call.word, 3) = kPrime THEN Sub64(kPrime, U64(1))
                     ELSE IF Shr64(call.word, 3) = U64Zero THEN U64(1)
                     ELSE Shr64(call.word, 3)

\* ConvertRandToFp has returned for a word whose top 61 bits are all ones
C24_Witness ==
    /\ Returned("ConvertRandToFp")
    /\ Shr64(call.word, 3) = kPrime
    /\ ret.r = Sub64(kPrime, U64(1))

\* C25: the result of HashToNonzeroFp lies in [1, p - 1] for every key.
C25_HashRange ==
    Returned("HashToNonzeroFp") => (ret.r # U64Zero /\ ~Geq64(ret.r, kPrime))

\* the key whose mixed word is 0 has been hashed, to 1
C25_Witness ==
    /\ Returned("HashToNonzeroFp")
    /\ MixStep(Add64(call.word, kGolden), 30, kMix1) = U64Zero
    /\ ret.r = U64(1)

\* the sum modulo p of the terms, by the reference arithmetic
RECURSIVE SumModP(_)
SumModP(terms) ==
    IF terms = <<>> THEN U64Zero
    ELSE LET rest == SumModP(Tail(terms))
         IN  CASE Computed(rest) -> AddModP(ModP(Head(terms)), rest)

\* C27: the plain 64-bit sum of 8 values below 2^61, and of 4 results of
\* Multiply, is below 2^64 (no addition carries out), so PartialReduce of
\* the sum is congruent modulo p to the true sum of the terms.
C27_LazyReduction ==
    /\ ~ret.wrapped
    /\ pc = "reduced" => ModP(ret.r) = SumModP(ret.terms)

\* the largest sum of 8 values below 2^61, which is 2^64 - 8, reduced
C27_Witness ==
    /\ pc = "reduced"
    /\ call.fn = "Sum"
    /\ ret.sum = Sub64(Ones(64), U64(7))
    /\ ret.r = kPrime

\* the bits of workspace at the positions from available up are zero
HighBitsZero(workspace, available) ==
    \A i \in BitIdx : i >= available => workspace[i] = 0

\* C28: in every state of a ByteReader, WordReader, WordWriter or ByteWriter
\* reached from Begin* by Read and Write calls (written values below 2^61),
\* every bit of Workspace at a position >= Available is zero.
C28_AccumulatorInvariant ==
    /\ HighBitsZero(rd.Workspace, rd.Available)
    /\ HighBitsZero(wr.Workspace, wr.Available)

\* a ByteReader that holds bits after the load of the tail, next to a
\* ByteWriter that holds bits of the words written so far
C28_Witness ==
    /\ pc = "write"
    /\ rd.Bytes = 0
    /\ rd.Available \in 1..60
    /\ rd.Workspace # U64Zero
    /\ wr.Workspace # U64Zero

\* C29 as stated: Available lies in 0..63 in every reachable state of the
\* four codecs.  Violated by the ByteReader.
C29_AvailableRange ==
    /\ rd.Available \in 0..63
    /\ wr.Available \in 0..63

\* C29, amended: a writer's Available lies in 0..63; a reader's Available
\* lies in -60..64: it is negative after the load of a tail that did not
\* fill the 61 bits returned, and it is 64 when an escape bit is inserted
\* into an accumulator that holds 63 bits.
C29_AvailableRangeAmended ==
    /\ rd.Available \in (0 - 60)..64
    /\ wr.Available \in 0..63

\* the ByteReader holds 64 bits after a Read that inserted an escape bit
C29_Witness ==
    /\ result = "Success"
    /\ fpOut = kAmbiguity
    /\ rd.Available = 64

\* C30: once ByteReader::Read has returned Empty every later Read on the
\* cursor returns Empty, and a Read that returns Empty leaves Data, Bytes,
\* Workspace and Available as they were and does not assign the output value.
C30_EmptyAbsorbing ==
    [][/\ result = "Empty" => result' = "Empty"
       /\ result' = "Empty" => (rd' = rd /\ fpOut' = fpOut)]_vars

\* a second Empty result, with the value of the last Success still in the
\* caller's variable
C30_Witness ==
    /\ result = "Empty"
    /\ j >= 2
    /\ fpOut # U64Zero

(***************************************************************************)
(* ReadBytes_LE and WriteBytes_LE called on their own, as TestByteReader   *)
(* calls ReadBytes_LE: at offset `at` of a buffer, with a byte count k     *)
(* from 0 to MaxBytesArg (counts above 8 included) and, for a write, a     *)
(* value v.  A write is followed by a read of the same bytes.  buf is the  *)
(* memory before the call, mem the memory after it.                        *)
(***************************************************************************)
MaxBytesArg == 10

\* uint8_t data[10 + 8] = {1, 2, ..., 10, 0, ...} of TestByteReader, the
\* simpledata of the same test, and a buffer of bytes 0xFF
MemoryBuffers ==
    {[i \in 1..18 |-> IF i <= 10 THEN i ELSE 0], SimpleData(17), AllOnes(16)}

MemoryCalls ==
    {[fn |-> "ReadBytes_LE", at |-> a, k |-> k] :
        a \in {0, 3, 8}, k \in 0..MaxBytesArg}
    \cup {[fn |-> "WriteBytes_LE", at |-> a, k |-> k, v |-> v] :
            a \in {0, 3, 8}, k \in 0..8,
            v \in PatternVals \cup {U64Zero, kPrime}}

InitMemory ==
    /\ buf \in MemoryBuffers
    /\ mem = buf
    /\ call \in MemoryCalls
    /\ ret = NoCall
    /\ pc = "call"
    /\ rd = BeginRead(0)
    /\ fpOut = U64Zero
    /\ result = "None"
    /\ wr = BeginWrite
    /\ writtenBytes = 0
    /\ t = TestBegin
    /\ nEscaped = 0
    /\ wordData = <<>>
    /\ j = 0
    /\ readBack = <<>>
    /\ prng = <<>>
    /\ local = NoCall

\* uint64_t v = fp61::ReadBytes_LE(data + at, k);
CallReadBytes ==
    /\ pc = "call" /\ call.fn = "ReadBytes_LE"
    /\ ret' = [v |-> ReadBytes_LE(buf, call.at, call.k)]
    /\ pc' = "returned"
    /\ UNCHANGED <<buf, rd, fpOut, result, wr, mem, writtenBytes, t, nEscaped, wordData, j, readBack, call, prng, local>>

\* fp61::WriteBytes_LE(data + at, k, v);
CallWriteBytes ==
    /\ pc = "call" /\ call.fn = "WriteBytes_LE"
    /\ mem' = WriteBytes_LE(mem, call.at, call.k, call.v)
    /\ pc' = "written"
    /\ UNCHANGED <<buf, rd, fpOut, result, wr, writtenBytes, t, nEscaped, wordData, j, readBack, call, ret, prng, local>>

\* fp61::ReadBytes_LE(data + at, k) after the write
ReadWritten ==
    /\ pc = "written"
    /\ ret' = [v |-> ReadBytes_LE(mem, call.at, call.k)]
    /\ pc' = "returned"
    /\ UNCHANGED <<buf, rd, fpOut, result, wr, mem, writtenBytes, t, nEscaped, wordData, j, readBack, call, prng, local>>

NextMemory == CallReadBytes \/ CallWriteBytes \/ ReadWritten

SpecMemory == InitMemory /\ [][NextMemory]_vars

(***************************************************************************)
(* Emulate64x64to128 (fp61.h), the portable form of CAT_MUL128: the        *)
(* product of two 64-bit words from the four products of their 32-bit      *)
(* halves.  The sums are 64-bit additions; `wrapped` tells whether one of  *)
(* them carried out of 64 bits.                                            *)
(***************************************************************************)
\* static_cast<uint32_t>(v), widened again to 64 bits
Lo32(v) == And64(v, Ones(32))

\* a + b + c in 64 bits, with the carries
Sum3(a, b, c) ==
    LET s1 == AddC(a, b)
    IN  CASE Computed(s1) ->
             LET s2 == AddC(s1.sum, c)
             IN  [sum |-> s2.sum, wrapped |-> s1.carry = 1 \/ s2.carry = 1]

\* the middle sum without the cast of p01 to 32 bits
EmulateMiddleWide(p10, p00, p01) == Sum3(p10, Lo32(Shr64(p00, 32)), p01)

\* middle = p10 + static_cast<uint32_t>(p00 >> 32) + static_cast<uint32_t>(p01);
EmulateMiddle(p10, p00, p01) == Sum3(p10, Lo32(Shr64(p00, 32)), Lo32(p01))

\* r_hi = p11 + static_cast<uint32_t>(middle >> 32) + static_cast<uint32_t>(p01 >> 32);
EmulateHigh(p11, middle, p01) ==
    Sum3(p11, Lo32(Shr64(middle, 32)), Lo32(Shr64(p01, 32)))

Emulate64x64to128(x, y) ==
    LET x0 == Lo32(x)
        x1 == Lo32(Shr64(x, 32))
        y0 == Lo32(y)
        y1 == Lo32(Shr64(y, 32))
        p11 == Mul64(x1, y1)
        p01 == Mul64(x0, y1)
        p10 == Mul64(x1, y0)
        p00 == Mul64(x0, y0)
    IN  CASE Computed(<<p11, p01, p10, p00>>) ->
             LET middle == EmulateMiddle(p10, p00, p01)
             IN  CASE Computed(middle) ->
                      LET high == EmulateHigh(p11, middle.sum, p01)
                      IN  [r_hi |-> high.sum,
                           r_lo |-> Or64(Shl64(middle.sum, 32), Lo32(p00)),
                           wrapped |-> middle.wrapped \/ high.wrapped]

(***************************************************************************)
(* Emulate64x64to128 called as TestMultiply calls it, on pairs of words    *)
(* whose halves are all ones, zero, a single bit or mixed.                 *)
(***************************************************************************)
EmulateVals ==
    {U64Zero, U64(1), Ones(32), Pow2(32), Or64(Pow2(32), U64(1)),
     Shl64(Ones(32), 32), Ones(63), Pow2(63), Ones(64), kPrime, kGolden}
    \cup PatternVals

EmulateCalls ==
    {[fn |-> "Emulate64x64to128", x |-> x, y |-> y] :
        x \in EmulateVals, y \in EmulateVals}

InitEmulate ==
    /\ call \in EmulateCalls
    /\ ret = NoCall
    /\ pc = "call"
    /\ buf = <<>>
    /\ rd = BeginRead(0)
    /\ fpOut = U64Zero
    /\ result = "None"
    /\ wr = BeginWrite
    /\ mem = <<>>
    /\ writtenBytes = 0
    /\ t = TestBegin
    /\ nEscaped = 0
    /\ wordData = <<>>
    /\ j = 0
    /\ readBack = <<>>
    /\ prng = <<>>
    /\ local = NoCall

\* r0 = Emulate64x64to128(r1, x, y);
CallEmulate ==
    /\ pc = "call" /\ call.fn = "Emulate64x64to128"
    /\ ret' = Emulate64x64to128(call.x, call.y)
    /\ pc' = "returned"
    /\ UNCHANGED <<call, codec, prng, local>>

NextEmulate == CallEmulate

SpecEmulate == InitEmulate /\ [][NextEmulate]_vars

(***************************************************************************)
(* Claims C31 to C40                                                       *)
(***************************************************************************)

\* C32: Inverse terminates, and its remainders strictly decrease: after
\* u3 %= v3 the new u3 is below v3, after v3 %= u3 the new v3 is below u3
\* (so the dividend of the next division is smaller than that of this one),
\* the loop is left when one of them is 0, and it is left after at most two
\* divisions per bit of the 61-bit operands.
C32_RemaindersDecrease ==
    [][pc = "inverse" /\ local.at \in {"top", "middle"} =>
        /\ local.at = "top" /\ local'.at = "middle" =>
              /\ ~Geq64(local'.u3, local'.v3)
              /\ ~Geq64(local'.u3, local.u3)
        /\ local.at = "middle" /\ local'.at = "top" =>
              /\ ~Geq64(local'.v3, local'.u3)
              /\ ~Geq64(local'.v3, local.v3)
        /\ local'.at = "return" <=>
              IF local.at = "top" THEN local.v3 = U64Zero ELSE local.u3 = U64Zero
        /\ local'.steps <= 2 * 61]_vars

\* the call with the longest loop has returned an inverse
C32_Witness ==
    /\ pc = "returned" /\ call.fn = "Inverse"
    /\ call.x = FromBytes(<<140, 73, 233, 47, 55, 239, 198, 19>>)
    /\ local.at = "return"
    /\ local.steps > 61
    /\ ret.i # U64Zero

\* C33: no 64-bit operation of Inverse wraps: u1 and v1 stay at most p in
\* every iteration, the updates u1 += qt*v1 and v1 += qt*u1 fit in 64 bits
\* and the final kPrime - v1 does not go below 0.
C33_NoWrapInInverse ==
    pc \in {"inverse", "returned", "tested"} =>
        /\ ~local.wrapped
        /\ Geq64(kPrime, local.u1)
        /\ ("v1" \in DOMAIN local => Geq64(kPrime, local.v1))

\* a call has returned kPrime - v1 after a loop in which a coefficient
\* reached p itself
C33_Witness ==
    /\ pc = "returned"
    /\ local.at = "return"
    /\ "v1" \in DOMAIN local
    /\ local.u3 = U64Zero
    /\ local.v3 = U64(1)
    /\ local.u1 = kPrime
    /\ ret.i = Sub64(kPrime, local.v1)

\* every Success takes at least 60 bits of the 8n bits of the buffer (61,
\* less the one bit an escape puts back), the last one at least one bit
ReadBound(n) == (8 * n + 59) \div 60

\* C31: reading terminates: the number of Read calls that return Success is
\* bounded by a function of the buffer length n alone, ReadBound(n), whatever
\* the content, so that call number ReadBound(n) + 1 at the latest returns
\* Empty.
C31_ReadingTerminates ==
    pc = "read" /\ "reads" \in DOMAIN local =>
        /\ local.successes <= ReadBound(Len(buf))
        /\ local.reads > ReadBound(Len(buf)) => result = "Empty"
        /\ local.reads = local.successes + (IF result = "Empty" THEN 1 ELSE 0)

\* the buffer of WorstLen bytes 0xFF has been read to its Empty, which needed
\* every call the bound allows
C31_Witness ==
    /\ pc = "read" /\ "reads" \in DOMAIN local
    /\ Len(buf) = WorstLen
    /\ result = "Empty"
    /\ local.successes = ReadBound(WorstLen)
    /\ local.reads = ReadBound(WorstLen) + 1

\* C37: for a buffer of n bytes of any content the first WordCount(n) =
\* floor(8n/61) calls of Read after BeginRead all return Success.
C37_FirstReadsSucceed ==
    pc = "read" /\ "reads" \in DOMAIN local =>
        (local.reads <= WordCount(Len(buf)) => local.successes = local.reads)

\* the last of the WordCount(n) calls has been served from the accumulator,
\* after the 8-byte loads had used up a buffer that holds no escape
C37_Witness ==
    /\ pc = "read" /\ "reads" \in DOMAIN local
    /\ buf = Zeros(FullLen)
    /\ rd.Bytes = 0
    /\ Len(local.loads) = FullLen \div 8
    /\ local.reads = WordCount(FullLen)
    /\ local.reads = Len(local.loads) + 1
    /\ local.successes = local.reads

\* C34: the ByteReader stays inside its span: no load reaches a byte at index
\* n or above, 8 bytes are loaded at once only while at least 8 unread bytes
\* remain, no byte is loaded twice, and a final load of fewer than 8 bytes
\* holds the bytes of the buffer with every bit above them zero.
C34_ReaderInSpan ==
    pc = "read" /\ "reads" \in DOMAIN local =>
        \A i \in 1..Len(local.loads) :
            LET l == local.loads[i]
            IN  /\ l.count \in 1..8
                /\ l.at >= 0
                /\ l.at + l.count <= Len(buf)
                /\ l.count <= l.left
                /\ l.count < 8 => l.count = l.left
                /\ \A k \in 1..(i - 1) :
                       local.loads[k].at + local.loads[k].count <= l.at
                /\ \A k \in 0..7 :
                       ByteOf(l.word, k) = IF k < l.count THEN buf[l.at + k + 1] ELSE 0

\* a buffer of 17 bytes has been read to its end with two 8-byte loads and a
\* final load of its last byte
C34_Witness ==
    /\ pc = "read" /\ "reads" \in DOMAIN local
    /\ Len(buf) = 17
    /\ result = "Empty"
    /\ Len(local.loads) = 3
    /\ local.loads[2].count = 8 /\ local.loads[2].at = 8
    /\ local.loads[3].count = 1 /\ local.loads[3].at = 16
    /\ local.loads[3].word = U64(buf[17])
    /\ buf[17] # 0

\* 61 * n < 2^32, from floor(61 * n / 64) < 2^26
Fits32(n) == 61 * (n \div 64) + (61 * (n % 64)) \div 64 < 2^26

\* C35: the Write calls and the Flush of a WordWriter store only to bytes
\* at indexes below BytesNeeded(n), those of a ByteWriter only below
\* MaxBytesNeeded(n), whatever the number n of values to be written.
C35_WritersInBuffer ==
    pc \in {"swrite", "sdone"} => Len(mem) <= ret.size

\* C36: WordCount(BytesNeeded(n)) = n for every n for which 61 * n fits 32
\* bits, and WordCount of the byte count returned by Flush is n as well.
C36_WordCountRoundTrip ==
    /\ pc \in {"swrite", "sdone"} /\ call.fn = "WordWriter" /\ Fits32(call.words)
         => ret.count = call.words
    /\ pc = "sdone" /\ call.fn = "WordWriter"
         => WordCount(writtenBytes) = call.words

\* the largest word count whose bits fit 32 bits has been sized and counted
C36_Witness ==
    /\ pc = "swrite" /\ call.fn = "WordWriter"
    /\ call.words = LargestFit
    /\ Fits32(call.words) /\ ~Fits32(call.words + 1)
    /\ ret.size = 2^29 - 7
    /\ ret.count = LargestFit

\* ceil(61 * n / 8), for n = 8 * a + b
CeilBytes(n) == 61 * (n \div 8) + (61 * (n % 8) + 7) \div 8

\* C12, for every n: BytesNeeded(n) = ceil(61 * n / 8) for whatever number n
\* of values a WordWriter is to write, and Flush returns that number.
C12_FlushCountEveryN ==
    /\ pc \in {"swrite", "sdone"} /\ call.fn = "WordWriter"
         => ret.size = CeilBytes(call.words)
    /\ pc = "sdone" /\ call.fn = "WordWriter" => writtenBytes = ret.size

\* C38: every value returned by WordReader::Read is below 2^61, also when
\* the call loads a fresh 64-bit word.
C38_WordReadFits61 ==
    pc = "wread" =>
        \A i \in 1..Len(readBack) : \A b \in 61..63 : readBack[i][b] = 0

\* C39: ReadBytes_LE(data, k) is the low 8k bits of the little-endian 64-bit
\* word at data for k in 1..8 and 0 for k = 0 and k > 8; WriteBytes_LE(data,
\* k, v) for k in 0..8 changes the bytes data[0..k) to the low k bytes of v
\* and no other byte, and ReadBytes_LE(data, k) then returns v mod 2^(8k).
C39_PartialAccess ==
    /\ Returned("ReadBytes_LE") =>
           ret.v = IF call.k \in 1..8
                   THEN And64(ReadU64_LE(buf, call.at), Ones(8 * call.k))
                   ELSE U64Zero
    /\ pc \in {"written", "returned"} /\ call.fn = "WriteBytes_LE" =>
           /\ Len(mem) = Len(buf)
           /\ \A i \in 1..Len(buf) :
                  mem[i] = IF i - 1 - call.at \in 0..(call.k - 1)
                           THEN ByteOf(call.v, i - 1 - call.at)
                           ELSE buf[i]
    /\ Returned("WriteBytes_LE") => ret.v = And64(call.v, Ones(8 * call.k))

\* seven bytes of 0xfedcba9876543210 have been written into the middle of a
\* buffer of bytes 0xFF and read back without its top byte
C39_Witness ==
    /\ Returned("WriteBytes_LE")
    /\ call.k = 7 /\ call.at = 3
    /\ call.v = FromBytes(<<16, 50, 84, 118, 152, 186, 220, 254>>)
    /\ buf = AllOnes(16)
    /\ mem[3] = 255 /\ mem[4] = 16 /\ mem[10] = 220 /\ mem[11] = 255
    /\ ret.v = FromBytes(<<16, 50, 84, 118, 152, 186, 220, 0>>)

\* C40: Emulate64x64to128(r_hi, x, y) is the 128-bit product of x and y,
\* r_hi its high word and the value returned its low word, and neither the
\* sum `middle` nor the sum r_hi wraps.
C40_EmulateProduct ==
    Returned("Emulate64x64to128") =>
        /\ ret.r_hi = Mul128(call.x, call.y).p_hi
        /\ ret.r_lo = Mul128(call.x, call.y).p_lo
        /\ ~ret.wrapped

\* (2^64 - 1)^2 has high word 0xfffffffffffffffe and low word 1
C40_Witness ==
    /\ Returned("Emulate64x64to128")
    /\ call.x = Ones(64) /\ call.y = Ones(64)
    /\ ret.r_hi = FromBytes(<<254, 255, 255, 255, 255, 255, 255, 255>>)
    /\ ret.r_lo = U64(1)
    /\ ~ret.wrapped

====
